---- MODULE Spec2Model ----
(***************************************************************************)
(* Webhook ingestion, checkout state machine and abandonment sweeper of    *)
(* the xeno-fde-backend service, as a state machine over the database      *)
(* tables (Tenant, Checkout, Order, Customer, Product), the metrics cache  *)
(* and the wall clock.                                                     *)
(*                                                                         *)
(* Time is counted in minutes.  Decimal strings of a payload (total_price, *)
(* price, total_spent) are sequences of decimal digits; the empty sequence *)
(* is a string that parseFloat cannot read.                                *)
(***************************************************************************)
EXTENDS Integers, Sequences, FiniteSets, TLC

VARIABLES
    now,          \* wall clock (Date.now()), minutes
    tenants,      \* table Tenant
    checkouts,    \* table Checkout
    orders,       \* table Order
    customers,    \* table Customer
    products,     \* table Product
    refunds,      \* table Refund
    redisUrl,     \* process.env.REDIS_URL is set
    redisUp,      \* the Redis server answers the client's commands
    cache,        \* entries of the cache
    last,         \* the operation that made the last step, and its result
    delivered,    \* scenario bookkeeping: events delivered per checkout
    pc,           \* position of the two concurrent abandonment runs
    run,          \* locals of the two concurrent abandonment runs
    writes,       \* bookkeeping: number of abandonedAt writes per checkout row
    handlers,     \* the concurrent refund handlers: position and locals
    pass          \* the pass of syncAllTenants: position and locals

vars == <<now, tenants, checkouts, orders, customers, products, refunds, redisUrl, redisUp,
          cache, last, delivered, pc, run, writes, handlers, pass>>

tables == <<checkouts, orders, customers, products, refunds>>

----------------------------------------------------------------------------
(* Bounds of the model *)

MaxTime == 61
MaxBodyLen == 2

(* Program constants *)

ABANDONMENT_THRESHOLD_MINUTES == 60
CACHE_TTL_MINUTES == 2

(* Values *)

NULL      == "null"        \* null of a nullable text column or payload field
UNDEFINED == "undefined"   \* a payload field that is not there
NoDate    == -1            \* null of a nullable timestamp
NaN       == -1            \* parseFloat of a string that is not a number

TenantIds   == {"t1", "t2"}
CheckoutIds == {"c1"}
CartTokens  == {"k1"}
OrderIds    == {"o1"}
TickSteps   == {59, 60, 61}

InitTenants ==
    { [id |-> "t1", name |-> "A", shopDomain |-> "a.myshopify.com",
       webhookSecret |-> 1, accessToken |-> "tok"],
      [id |-> "t2", name |-> "B", shopDomain |-> "b.myshopify.com",
       webhookSecret |-> 2, accessToken |-> NULL] }

----------------------------------------------------------------------------
(* Conversions *)

RECURSIVE DigitsValue(_)
DigitsValue(s) ==
    IF Len(s) = 0 THEN 0
    ELSE 10 * DigitsValue(SubSeq(s, 1, Len(s) - 1)) + s[Len(s)]

\* parseFloat(s)
parseFloat(s) == IF Len(s) = 0 THEN NaN ELSE DigitsValue(s)

\* parseFloat(s) || 0
parseFloatOr0(s) == IF parseFloat(s) = NaN THEN 0 ELSE parseFloat(s)

\* x || null
OrNull(x) == IF x = UNDEFINED THEN NULL ELSE x

RECURSIVE SumQuantity(_)
\* line_items?.reduce((sum, item) => sum + (item.quantity || 1), 0) || 0
SumQuantity(items) ==
    IF Len(items) = 0 THEN 0
    ELSE (IF Head(items).quantity = 0 THEN 1 ELSE Head(items).quantity)
         + SumQuantity(Tail(items))

RECURSIVE SumTotal(_)
SumTotal(S) ==
    IF S = {} THEN 0
    ELSE LET o == CHOOSE x \in S : TRUE IN o.total + SumTotal(S \ {o})

----------------------------------------------------------------------------
(* The database as one value: db.checkouts, db.orders, db.customers,       *)
(* db.products.  A handler maps a database to the set of its possible      *)
(* outcomes [db, threw]: the tables it leaves behind and whether it ended  *)
(* by throwing.                                                            *)

DB == [checkouts |-> checkouts, orders |-> orders,
       customers |-> customers, products |-> products, refunds |-> refunds]

Done(db)  == [db |-> db, threw |-> FALSE]
Threw(db) == [db |-> db, threw |-> TRUE]

\* the value of last before any operation; an operation overwrites the
\* fields that describe it
NoCount == [synced |-> 0, errors |-> 0]
NoResult == [success |-> FALSE, products |-> NoCount, customers |-> NoCount,
             orders |-> NoCount, error |-> ""]
NoData == [customersCount |-> 0, ordersCount |-> 0, totalRevenue |-> 0]
\* what the store API answered to a backfill, in short: whether it could
\* be reached, the entity types the backfill asked for and, per entity type,
\* whether the fetch succeeded and how many items it returned
NoRemote == [connected |-> FALSE, asked |-> {},
             products  |-> [ok |-> FALSE, n |-> 0],
             customers |-> [ok |-> FALSE, n |-> 0],
             orders    |-> [ok |-> FALSE, n |-> 0]]
\* the checkout analytics of no checkouts
NoAnalytics == [totalCheckouts |-> 0, completedCheckouts |-> 0,
                abandonedCheckouts |-> 0, pendingCheckouts |-> 0,
                conversionRate |-> 0, abandonmentRate |-> 0,
                abandonedValue |-> 0, completedValue |-> 0]
NoOp == [op |-> "init", tenants |-> {}, topic |-> "", threw |-> FALSE,
         count |-> 0, status |-> 0, result |-> NoResult,
         kind |-> "", verify |-> "none", routed |-> FALSE, success |-> FALSE,
         hit |-> FALSE, data |-> NoData, payload |-> <<>>, remote |-> NoRemote,
         analytics |-> NoAnalytics, range |-> <<>>, tenantStats |-> <<>>]

\* @default(cuid()): a fresh synthetic id
NewCheckoutId(cs) == Cardinality(cs) + 1

----------------------------------------------------------------------------
(* Checkout state machine *)

\* where: { tenantId_shopifyCheckoutId: { tenantId, shopifyCheckoutId } }
CheckoutByKey(cs, tenantId, shopifyCheckoutId) ==
    { c \in cs : c.tenantId = tenantId /\ c.shopifyCheckoutId = shopifyCheckoutId }

\* a checkout event that gives up a checkout that is not completed
CheckoutEventStatus_abandoned(isCompleted) ==
    IF isCompleted THEN "COMPLETED" ELSE "ABANDONED"

\* a checkout event that completes every checkout
CheckoutEventStatus_completed(isCompleted) ==
    IF isCompleted THEN "COMPLETED" ELSE "COMPLETED"

\* the status a checkout event writes
CheckoutEventStatus(isCompleted) ==
    IF isCompleted THEN "COMPLETED" ELSE "PENDING"

\* the create branch of the upsert of processCheckout: the row inserted
CheckoutCreated(cs, tenantId, payload, t) ==
    LET isCompleted == payload.completed_at # NoDate
    IN  [id |-> NewCheckoutId(cs),
         tenantId |-> tenantId,
         shopifyCheckoutId |-> payload.id,
         shopifyCartToken |-> OrNull(payload.cart_token),
         totalPrice |-> parseFloatOr0(payload.total_price),
         lineItemsCount |-> SumQuantity(payload.line_items),
         status |-> CheckoutEventStatus(isCompleted),
         completedAt |-> IF isCompleted THEN payload.completed_at ELSE NoDate,
         abandonedAt |-> NoDate,
         createdAt |-> t,
         updatedAt |-> t]

\* an update branch that also writes the cart token of the payload
CheckoutUpdated_cartToken(c, payload, t) ==
    LET isCompleted == payload.completed_at # NoDate
    IN  [c EXCEPT !.shopifyCartToken = OrNull(payload.cart_token),
                  !.totalPrice = parseFloatOr0(payload.total_price),
                  !.lineItemsCount = SumQuantity(payload.line_items),
                  !.status = CheckoutEventStatus(isCompleted),
                  !.completedAt = IF isCompleted THEN payload.completed_at ELSE NoDate,
                  !.updatedAt = t]

\* the update branch of the upsert of processCheckout: row c rewritten
CheckoutUpdated(c, payload, t) ==
    LET isCompleted == payload.completed_at # NoDate
    IN  [c EXCEPT !.totalPrice = parseFloatOr0(payload.total_price),
                  !.lineItemsCount = SumQuantity(payload.line_items),
                  !.status = CheckoutEventStatus(isCompleted),
                  !.completedAt = IF isCompleted THEN payload.completed_at ELSE NoDate,
                  !.updatedAt = t]

processCheckout(db, tenantId, payload, t) ==
    LET shopifyCheckoutId == payload.id
        found          == CheckoutByKey(db.checkouts, tenantId, shopifyCheckoutId)
        created        == CheckoutCreated(db.checkouts, tenantId, payload, t)
        updated(c)     == CheckoutUpdated(c, payload, t)
    IN  IF found = {}
        THEN { Done([db EXCEPT !.checkouts = @ \cup {created}]) }
        ELSE { Done([db EXCEPT !.checkouts =
                        (@ \ found) \cup { updated(c) : c \in found }]) }

\* where: { tenantId, shopifyCartToken: cartToken }; a filter whose value is
\* undefined is no filter
CartMatch(c, tenantId, cartToken) ==
    /\ c.tenantId = tenantId
    /\ (cartToken = UNDEFINED \/ c.shopifyCartToken = cartToken)

processCart(db, tenantId, payload, t) ==
    LET cartToken == payload.token
        matching  == { c \in db.checkouts : CartMatch(c, tenantId, cartToken) }
    IN  IF matching = {}
        THEN { Done(db) }
        ELSE { Done([db EXCEPT !.checkouts =
                        (@ \ {existingCheckout})
                        \cup { [existingCheckout EXCEPT !.updatedAt = t] }])
               : existingCheckout \in matching }

\* if (checkout && checkout.status !== 'COMPLETED')
NeedsCompletion(checkout) == checkout.status # "COMPLETED"

markCheckoutCompleted(db, tenantId, checkoutToken, t) ==
    LET found == { c \in db.checkouts :
                     c.tenantId = tenantId /\ c.shopifyCheckoutId = checkoutToken }
    IN  IF found = {}
        THEN { Done(db) }
        ELSE { IF NeedsCompletion(checkout)
               THEN Done([db EXCEPT !.checkouts =
                            (@ \ {checkout})
                            \cup { [checkout EXCEPT !.status = "COMPLETED",
                                                    !.completedAt = t,
                                                    !.updatedAt = t] }])
               ELSE Done(db)
               : checkout \in found }

----------------------------------------------------------------------------
(* Entity upsert layer *)

\* @@unique([tenantId, email]): writing email into row id of tenant tenantId
\* collides with another row of that tenant
EmailTaken(cs, id, tenantId, email) ==
    \E c \in cs : c.id # id /\ c.tenantId = tenantId /\ c.email = email

\* where: { id: customerId }
CustomerById(cs, tenantId, customerId) ==
    { c \in cs : c.id = customerId }

\* totalSpent: parseFloat(payload.total_spent || '0') in the update branch
CustomerUpdateSpent(c, payload) == parseFloatOr0(payload.total_spent)

processCustomer(db, tenantId, payload, t) ==
    LET customerId == payload.id
        found      == CustomerById(db.customers, tenantId, customerId)
        created ==
            [id |-> customerId,
             tenantId |-> tenantId,
             email |-> payload.email,
             totalSpent |-> parseFloatOr0(payload.total_spent),
             ordersCount |-> payload.orders_count]
        updated(c) ==
            [c EXCEPT !.email = payload.email,
                      !.totalSpent = CustomerUpdateSpent(c, payload),
                      !.ordersCount = payload.orders_count]
    IN  IF found = {}
        THEN IF EmailTaken(db.customers, customerId, tenantId, payload.email)
             THEN { Threw(db) }
             ELSE { Done([db EXCEPT !.customers = @ \cup {created}]) }
        ELSE { IF EmailTaken(db.customers, c.id, c.tenantId, payload.email)
               THEN Threw(db)
               ELSE Done([db EXCEPT !.customers = (@ \ {c}) \cup {updated(c)}])
               : c \in found }

\* where: { id: productId }
ProductById(ps, tenantId, productId) ==
    { p \in ps : p.id = productId }

UpsertProduct(db, tenantId, productId, title, price) ==
    LET found == ProductById(db.products, tenantId, productId)
        created == [id |-> productId, tenantId |-> tenantId,
                    title |-> title, price |-> price]
    IN  IF found = {}
        THEN [db EXCEPT !.products = @ \cup {created}]
        ELSE [db EXCEPT !.products =
                 (@ \ found) \cup { [p EXCEPT !.title = title, !.price = price]
                                    : p \in found }]

processProduct(db, tenantId, payload, t) ==
    LET price == IF Len(payload.variants) > 0 /\ Len(payload.variants[1].price) > 0
                 THEN parseFloat(payload.variants[1].price)
                 ELSE 0
    IN  { Done(UpsertProduct(db, tenantId, payload.id, payload.title, price)) }

RECURSIVE UpsertLineItems(_, _, _)
\* for (const item of payload.line_items) if (item.product_id) upsert
UpsertLineItems(db, tenantId, items) ==
    IF Len(items) = 0 THEN db
    ELSE LET item == Head(items)
             next == IF item.product_id = UNDEFINED THEN db
                     ELSE UpsertProduct(db, tenantId, item.product_id,
                                        item.title, parseFloatOr0(item.price))
         IN  UpsertLineItems(next, tenantId, Tail(items))

\* where: { id: orderId }
OrderById(os, tenantId, orderId) ==
    { o \in os : o.id = orderId }

\* an update that adds the payload's total to the stored total
OrderUpdate_accumulate(o, total, customerId) == [o EXCEPT !.total = @ + total]

\* an update that also links the order to the payload's customer
OrderUpdate_relink(o, total, customerId) ==
    [o EXCEPT !.total = total, !.customerId = customerId]

\* the update branch of the order upsert of processOrderCreated
OrderUpdate(o, total, customerId) == [o EXCEPT !.total = total]

UpsertOrder(db, tenantId, payload, t) ==
    LET orderId    == payload.id
        total      == parseFloatOr0(payload.total_price)
        customerId == IF Len(payload.customer) > 0
                      THEN payload.customer[1].id ELSE NULL
        found      == OrderById(db.orders, tenantId, orderId)
        created    == [id |-> orderId, tenantId |-> tenantId,
                       total |-> total, customerId |-> customerId,
                       createdAt |-> t]
    IN  IF found = {}
        THEN [db EXCEPT !.orders = @ \cup {created}]
        ELSE [db EXCEPT !.orders =
                 (@ \ found) \cup { OrderUpdate(o, total, customerId) : o \in found }]

\* SELECT COALESCE(SUM(total), 0), COUNT(*) FROM "Order"
\* WHERE "customerId" = customerId AND "tenantId" = tenantId
OrdersOfCustomer(os, tenantId, customerId) ==
    { o \in os : o.customerId = customerId /\ o.tenantId = tenantId }

\* customer.update({ where: { id: customerId }, data: orderStats })
UpdateCustomerMetrics(db, tenantId, customerId) ==
    LET mine == OrdersOfCustomer(db.orders, tenantId, customerId)
    IN  [db EXCEPT !.customers =
            { IF c.id = customerId
              THEN [c EXCEPT !.totalSpent = SumTotal(mine),
                             !.ordersCount = Cardinality(mine)]
              ELSE c : c \in @ }]

processOrderCreated(db, tenantId, payload, t) ==
    LET db1 == UpsertOrder(db, tenantId, payload, t)
    IN  IF Len(payload.customer) = 0
        THEN { Done(UpsertLineItems(db1, tenantId, payload.line_items)) }
        ELSE { IF r.threw
               THEN Threw(r.db)
               ELSE Done(UpsertLineItems(
                        UpdateCustomerMetrics(r.db, tenantId, payload.customer[1].id),
                        tenantId, payload.line_items))
               : r \in processCustomer(db1, tenantId, payload.customer[1], t) }

\* @default(cuid()): a fresh synthetic id
NewRefundId(rs) == Cardinality(rs) + 1

RECURSIVE SumTransactions(_)
\* payload.transactions?.reduce((sum, tx) => sum + (parseFloat(tx.amount) || 0), 0)
SumTransactions(txs) ==
    IF Len(txs) = 0 THEN 0
    ELSE parseFloatOr0(Head(txs).amount) + SumTransactions(Tail(txs))

RECURSIVE SumSubtotals(_)
\* payload.refund_line_items?.reduce((sum, item) => sum + (item.subtotal || 0), 0)
SumSubtotals(items) ==
    IF Len(items) = 0 THEN 0
    ELSE Head(items).subtotal + SumSubtotals(Tail(items))

\* a || b || 0: the first of the two sums that is not 0
RefundAmount(payload) ==
    IF SumTransactions(payload.transactions) # 0
    THEN SumTransactions(payload.transactions)
    ELSE SumSubtotals(payload.refund_line_items)

\* payload.transactions?.[0]?.currency || 'USD'
RefundCurrency(payload) ==
    IF Len(payload.transactions) > 0 /\ payload.transactions[1].currency # UNDEFINED
    THEN payload.transactions[1].currency
    ELSE "USD"

\* where: { tenantId_shopifyRefundId: { tenantId, shopifyRefundId } }
RefundByKey(rs, tenantId, shopifyRefundId) ==
    { r \in rs : r.tenantId = tenantId /\ r.shopifyRefundId = shopifyRefundId }

\* an upsert that leaves an existing row as it is
UpsertRefund_keepFirst(db, tenantId, payload, amount, currency) ==
    LET found   == RefundByKey(db.refunds, tenantId, payload.id)
        created == [id |-> NewRefundId(db.refunds),
                    tenantId |-> tenantId,
                    shopifyRefundId |-> payload.id,
                    shopifyOrderId |-> payload.order_id,
                    amount |-> amount,
                    currency |-> currency,
                    reason |-> OrNull(payload.note)]
    IN  IF found = {}
        THEN [db EXCEPT !.refunds = @ \cup {created}]
        ELSE db

\* prisma.refund.upsert: one INSERT ... ON CONFLICT DO UPDATE statement
UpsertRefund(db, tenantId, payload, amount, currency) ==
    LET found   == RefundByKey(db.refunds, tenantId, payload.id)
        created == [id |-> NewRefundId(db.refunds),
                    tenantId |-> tenantId,
                    shopifyRefundId |-> payload.id,
                    shopifyOrderId |-> payload.order_id,
                    amount |-> amount,
                    currency |-> currency,
                    reason |-> OrNull(payload.note)]
    IN  IF found = {}
        THEN [db EXCEPT !.refunds = @ \cup {created}]
        ELSE [db EXCEPT !.refunds =
                 (@ \ found) \cup { [r EXCEPT !.amount = amount,
                                               !.reason = OrNull(payload.note)]
                                    : r \in found }]

processRefund(db, tenantId, payload, t) ==
    { Done(UpsertRefund(db, tenantId, payload,
                        RefundAmount(payload), RefundCurrency(payload))) }

----------------------------------------------------------------------------
(* Metrics cache.  An entry is [key, data, expiresAt]; a key is the        *)
(* sequence of its colon-separated parts: <<"metrics", tenantId>> or       *)
(* <<"metrics", tenantId, startDate, endDate>>.                            *)

\* CACHE_KEYS.metrics(tenantId)
MetricsKey(tenantId) == <<"metrics", tenantId>>

\* an invalidation that deletes the bare key only
MatchesPattern_none(key, tenantId) == FALSE

\* redis.keys(`${CACHE_KEYS.metrics(tenantId)}:*`)
MatchesPattern(key, tenantId) ==
    /\ Len(key) > 2
    /\ SubSeq(key, 1, 2) = MetricsKey(tenantId)

\* getRedis(): no client when REDIS_URL is not set; a client whose server is
\* down has every command rejected
getRedis == IF ~redisUrl THEN "none" ELSE IF redisUp THEN "up" ELSE "down"

\* invalidateMetricsCache(tenantId) with the client given: the deletions
\* are in a try block whose catch logs
invalidateMetricsCacheOn(client, entries, tenantId) ==
    IF client # "up" THEN entries
    ELSE { e \in entries :
             e.key # MetricsKey(tenantId) /\ ~MatchesPattern(e.key, tenantId) }

invalidateMetricsCache(entries, tenantId) ==
    invalidateMetricsCacheOn(getRedis, entries, tenantId)

----------------------------------------------------------------------------
(* Event router *)

OrderTopics    == {"orders/create", "orders/updated"}
CustomerTopics == {"customers/create", "customers/update"}
ProductTopics  == {"products/create", "products/update"}
CheckoutTopics == {"checkouts/create", "checkouts/update"}
CartTopics     == {"carts/create", "carts/update"}
RefundTopics   == {"refunds/create"}

\* a default branch that rejects the topic
Unhandled_throw(db, topic) == { Threw(db) }

\* default: console.log(`Unhandled webhook topic: ${topic}`)
Unhandled(db, topic) == { Done(db) }

\* the switch of routeWebhook: the outcomes of the topic's handler
Dispatch(db, tenantId, topic, payload, t) ==
    IF topic \in OrderTopics THEN
        UNION { IF r.threw \/ payload.checkout_token = UNDEFINED
                THEN {r}
                ELSE markCheckoutCompleted(r.db, tenantId, payload.checkout_token, t)
                : r \in processOrderCreated(db, tenantId, payload, t) }
    ELSE IF topic \in CustomerTopics THEN processCustomer(db, tenantId, payload, t)
    ELSE IF topic \in ProductTopics THEN processProduct(db, tenantId, payload, t)
    ELSE IF topic \in CheckoutTopics THEN processCheckout(db, tenantId, payload, t)
    ELSE IF topic \in CartTopics THEN processCart(db, tenantId, payload, t)
    ELSE IF topic \in RefundTopics THEN processRefund(db, tenantId, payload, t)
    ELSE Unhandled(db, topic)

\* routeWebhook(tenantId, topic, payload): its outcomes [db, cache, threw].
\* A handler that throws leaves routeWebhook before the cache invalidation.
routeWebhookOn(client, db, entries, tenantId, topic, payload, t) ==
    { [db |-> r.db,
       cache |-> IF r.threw THEN entries
                 ELSE invalidateMetricsCacheOn(client, entries, tenantId),
       threw |-> r.threw]
      : r \in Dispatch(db, tenantId, topic, payload, t) }

routeWebhook(db, entries, tenantId, topic, payload, t) ==
    routeWebhookOn(getRedis, db, entries, tenantId, topic, payload, t)

\* the tables and the cache after outcome r
Apply(r) ==
    /\ checkouts' = r.db.checkouts
    /\ orders'    = r.db.orders
    /\ customers' = r.db.customers
    /\ products'  = r.db.products
    /\ refunds'   = r.db.refunds
    /\ cache'     = r.cache

----------------------------------------------------------------------------
(* Abandonment sweeper *)

\* a where clause on the age of the last activity: updatedAt: { lt }
SweepMatch_updatedAt(c, tenantId, thresholdDate) ==
    /\ c.tenantId = tenantId
    /\ c.status = "PENDING"
    /\ c.updatedAt < thresholdDate

\* createdAt: { lte: thresholdDate } in place of lt
SweepMatch_lte(c, tenantId, thresholdDate) ==
    /\ c.tenantId = tenantId
    /\ c.status = "PENDING"
    /\ c.createdAt <= thresholdDate

\* a where clause without status: 'PENDING'
SweepMatch_anyStatus(c, tenantId, thresholdDate) ==
    /\ c.tenantId = tenantId
    /\ c.createdAt < thresholdDate

\* a where clause with status: { not: 'COMPLETED' }
SweepMatch_notCompleted(c, tenantId, thresholdDate) ==
    /\ c.tenantId = tenantId
    /\ c.status # "COMPLETED"
    /\ c.createdAt < thresholdDate

\* where: { tenantId, status: 'PENDING', createdAt: { lt: thresholdDate } }
SweepMatch(c, tenantId, thresholdDate) ==
    /\ c.tenantId = tenantId
    /\ c.status = "PENDING"
    /\ c.createdAt < thresholdDate

\* new Date(Date.now() - ABANDONMENT_THRESHOLD_MINUTES * 60 * 1000)
ThresholdDate(t) == t - ABANDONMENT_THRESHOLD_MINUTES

\* a sweep that removes the stale checkouts: deleteMany({ where })
UpdateManyAbandoned_delete(cs, tenantId, thresholdDate, abandonedAt, t) ==
    { c \in cs : ~SweepMatch(c, tenantId, thresholdDate) }

\* prisma.checkout.updateMany({ where, data: { status, abandonedAt } })
UpdateManyAbandoned(cs, tenantId, thresholdDate, abandonedAt, t) ==
    { IF SweepMatch(c, tenantId, thresholdDate)
      THEN [c EXCEPT !.status = "ABANDONED",
                     !.abandonedAt = abandonedAt,
                     !.updatedAt = t]
      ELSE c : c \in cs }

\* result.count
UpdateManyCount(cs, tenantId, thresholdDate) ==
    Cardinality({ c \in cs : SweepMatch(c, tenantId, thresholdDate) })

\* detectAbandonedCheckouts(tenantId), run without interruption at time t
detectAbandonedCheckouts(cs, tenantId, t) ==
    UpdateManyAbandoned(cs, tenantId, ThresholdDate(t), t, t)

RECURSIVE detectAll(_, _, _)
\* the loop of detectAllAbandonedCheckouts over the tenants ts
detectAll(cs, ts, t) ==
    IF ts = {} THEN cs
    ELSE LET tenant == CHOOSE x \in ts : TRUE
         IN  detectAll(detectAbandonedCheckouts(cs, tenant.id, t), ts \ {tenant}, t)

RECURSIVE totalAbandoned(_, _, _)
totalAbandoned(cs, ts, t) ==
    IF ts = {} THEN 0
    ELSE LET tenant == CHOOSE x \in ts : TRUE
         IN  UpdateManyCount(cs, tenant.id, ThresholdDate(t))
             + totalAbandoned(detectAbandonedCheckouts(cs, tenant.id, t),
                              ts \ {tenant}, t)

----------------------------------------------------------------------------
(* Operations, each run from start to end without interleaving *)

\* a webhook that passed the header, tenant and signature checks
Deliver(tenantId, topic, payload) ==
    /\ \E r \in routeWebhook(DB, cache, tenantId, topic, payload, now) :
          /\ Apply(r)
          /\ last' = [NoOp EXCEPT !.op = "webhook", !.tenants = {tenantId},
                                  !.topic = topic, !.threw = r.threw]
    /\ UNCHANGED <<now, tenants, redisUrl, redisUp, delivered, pc, run, writes, handlers, pass>>

\* POST /analytics/detect-abandoned/:tenantId
DetectAbandonedRequest(tenantId) ==
    /\ IF \E tenant \in tenants : tenant.id = tenantId
       THEN /\ checkouts' = detectAbandonedCheckouts(checkouts, tenantId, now)
            /\ last' = [NoOp EXCEPT !.op = "sweep", !.tenants = {tenantId},
                          !.count = UpdateManyCount(checkouts, tenantId, ThresholdDate(now)),
                          !.status = 200]
       ELSE /\ checkouts' = checkouts
            /\ last' = [NoOp EXCEPT !.op = "detect", !.status = 404]
    /\ UNCHANGED <<now, tenants, orders, customers, products, refunds, redisUrl, redisUp, cache,
                   delivered, pc, run, writes, handlers, pass>>

\* the cron task '*/15 * * * *': detectAllAbandonedCheckouts()
ScheduledSweep ==
    /\ checkouts' = detectAll(checkouts, tenants, now)
    /\ last' = [NoOp EXCEPT !.op = "sweep",
                            !.tenants = { tenant.id : tenant \in tenants },
                            !.count = totalAbandoned(checkouts, tenants, now)]
    /\ UNCHANGED <<now, tenants, orders, customers, products, refunds, redisUrl, redisUp, cache,
                   delivered, pc, run, writes, handlers, pass>>

\* time passes
Tick ==
    /\ \E d \in TickSteps : now + d <= MaxTime /\ now' = now + d
    /\ last' = [NoOp EXCEPT !.op = "tick"]
    /\ UNCHANGED <<tenants, checkouts, orders, customers, products, refunds, redisUrl, redisUp,
                   cache, delivered, pc, run, writes, handlers, pass>>

----------------------------------------------------------------------------
(* Spec: the checkout state machine under checkout, cart and order events  *)
(* and sweeps, processed one at a time.                                    *)

InitTables ==
    /\ tenants = InitTenants
    /\ checkouts = {}
    /\ orders = {}
    /\ customers = {}
    /\ products = {}
    /\ refunds = {}

Runs == {"scheduled", "manual"}

\* the locals of an abandonment run that has not started: the tenants still
\* to sweep, the tenant being swept, the two dates of its query, the count
\* and the rows it has transitioned, the sweeps it has made
NoRun == [todo |-> {}, tenantId |-> "", thresholdDate |-> 0, abandonedAt |-> 0,
          count |-> 0, hit |-> {}, swept |-> {}, overlap |-> FALSE]

\* the two request handlers that process refund events side by side
HandlerIds == {"A", "B"}

\* the locals of a refund handler that has no request: the tenant and the
\* payload of its request, the amount and currency it computed, whether
\* its upsert is the latest the database has executed, and whether the
\* other handler had computed its amount when this one took its request
NoHandler == [pc |-> "idle", tenantId |-> "", payload |-> <<>>,
              amount |-> 0, currency |-> "", latest |-> FALSE, overlap |-> FALSE]

\* the locals of a pass of syncAllTenants that has not started: the tenants
\* still to sync and the syncs made so far, in order, each with its tenant
\* and whether it succeeded
NoPass == [pc |-> "idle", todo |-> {}, log |-> <<>>]

InitIdle ==
    /\ delivered = {}
    /\ pc = [r \in {"scheduled", "manual"} |-> "idle"]
    /\ run = [r \in Runs |-> NoRun]
    /\ writes = <<>>
    /\ handlers = [h \in HandlerIds |-> NoHandler]
    /\ pass = NoPass

Init ==
    /\ now = 0
    /\ InitTables
    /\ redisUrl = TRUE
    /\ redisUp = TRUE
    /\ cache = {}
    /\ last = NoOp
    /\ InitIdle

CheckoutPayloads ==
    [id : CheckoutIds, cart_token : CartTokens, total_price : {<<1, 0>>},
     line_items : {<<[quantity |-> 2]>>}, completed_at : {NoDate, now}]

CartPayloads == [token : CartTokens \cup {"k2", UNDEFINED}]

PlainOrderPayloads ==
    [id : OrderIds, total_price : {<<1, 0>>}, customer : {<<>>},
     line_items : {<<>>}, checkout_token : CheckoutIds \cup {UNDEFINED}]

CheckoutEvent ==
    \E tenantId \in TenantIds, topic \in CheckoutTopics, payload \in CheckoutPayloads :
        Deliver(tenantId, topic, payload)

CartEvent ==
    \E tenantId \in TenantIds, topic \in CartTopics, payload \in CartPayloads :
        Deliver(tenantId, topic, payload)

OrderEvent ==
    \E tenantId \in TenantIds, topic \in OrderTopics, payload \in PlainOrderPayloads :
        Deliver(tenantId, topic, payload)

ManualSweep ==
    \E tenantId \in TenantIds \cup {"tX"} : DetectAbandonedRequest(tenantId)

Next ==
    \/ CheckoutEvent
    \/ CartEvent
    \/ OrderEvent
    \/ ManualSweep
    \/ ScheduledSweep
    \/ Tick

Spec == Init /\ [][Next]_vars

----------------------------------------------------------------------------
(* Properties of the checkout state machine, checked under Spec *)

\* the row that checkout c has become in the next state
After(c) == { d \in checkouts' : d.id = c.id }

\* C1: once a Checkout row has status COMPLETED, no later step (checkout,
\* cart or order event, or sweep) changes its status to PENDING or ABANDONED.
C1_CompletedIsNeverDowngraded ==
    [][\A c \in checkouts :
         c.status = "COMPLETED" => \A d \in After(c) : d.status = "COMPLETED"]_vars

\* C2: in every reachable state every Checkout row has at most one of
\* completedAt and abandonedAt set, completedAt only with status COMPLETED
\* and abandonedAt only with status ABANDONED.
C2_TimestampsMatchStatus ==
    \A c \in checkouts :
        /\ ~(c.completedAt # NoDate /\ c.abandonedAt # NoDate)
        /\ (c.completedAt # NoDate => c.status = "COMPLETED")
        /\ (c.abandonedAt # NoDate => c.status = "ABANDONED")

\* C29: after a checkouts/create or checkouts/update event the tenant has
\* one Checkout row with the payload's id; it is COMPLETED with completedAt =
\* completed_at when the payload's completed_at is not null, and PENDING with
\* completedAt = null otherwise, whatever the row's status was before.
C29_CheckoutEventSetsStatus ==
    [][\A tenantId \in TenantIds, topic \in CheckoutTopics, payload \in CheckoutPayloads :
          (last'.topic = topic /\ Deliver(tenantId, topic, payload)) =>
              /\ Cardinality(CheckoutByKey(checkouts', tenantId, payload.id)) = 1
              /\ \A row \in CheckoutByKey(checkouts', tenantId, payload.id) :
                    IF payload.completed_at # NoDate
                    THEN row.status = "COMPLETED"
                         /\ row.completedAt = payload.completed_at
                    ELSE row.status = "PENDING" /\ row.completedAt = NoDate]_vars

\* C29 witness: a checkout event has reopened a checkout that a sweep had
\* moved to ABANDONED: the row is PENDING and still has its abandonedAt.
C29_Witness ==
    /\ last.op = "webhook" /\ last.topic \in CheckoutTopics
    /\ \E c \in checkouts :
          /\ c.tenantId \in last.tenants
          /\ c.status = "PENDING" /\ c.abandonedAt # NoDate /\ c.completedAt = NoDate

\* C27: a carts/create or carts/update event creates no Checkout row and
\* changes no status, totalPrice, lineItemsCount, completedAt or abandonedAt;
\* it changes at most the updatedAt of a checkout of its tenant that has the
\* event's cart token, and no row when no checkout has that token.
C27_CartEventOnlyRefreshes ==
    [][\A tenantId \in TenantIds, topic \in CartTopics, payload \in CartPayloads :
          (last'.topic = topic /\ Deliver(tenantId, topic, payload)) =>
              /\ Cardinality(checkouts') = Cardinality(checkouts)
              /\ \A c \in checkouts :
                    /\ (c \in checkouts' \/ [c EXCEPT !.updatedAt = now] \in checkouts')
                    /\ (c.tenantId # tenantId \/ c.shopifyCartToken # payload.token)
                          => c \in checkouts']_vars

\* C26: a sweep that follows a sweep of the same tenants, and any sweep that
\* finds no PENDING checkout of its tenants older than the threshold, changes
\* no Checkout row (status, abandonedAt and updatedAt of the ABANDONED rows
\* stay) and counts 0 transitioned rows.
C26_SweepIdempotent ==
    [][last'.op = "sweep" =>
          LET eligible == { c \in checkouts :
                              /\ c.tenantId \in last'.tenants
                              /\ c.status = "PENDING"
                              /\ now - c.createdAt > ABANDONMENT_THRESHOLD_MINUTES }
          IN  /\ (last.op = "sweep" /\ last'.tenants \subseteq last.tenants)
                    => eligible = {}
              /\ eligible = {} => (checkouts' = checkouts /\ last'.count = 0)]_vars

\* C26 witness: a sweep directly after a sweep that had moved a checkout of
\* the tenant to ABANDONED counted 0.
C26_Witness ==
    /\ last.op = "sweep" /\ last.count = 0
    /\ \E c \in checkouts :
          /\ c.tenantId \in last.tenants
          /\ c.status = "ABANDONED" /\ c.abandonedAt = now

\* C9: a sweep at time t moves a checkout to ABANDONED with abandonedAt = t
\* if and only if the checkout belongs to a swept tenant, is PENDING and was
\* created more than 60 minutes before t; every other row is left as it was.
C9_SweepThreshold ==
    [][last'.op = "sweep" =>
         \A c \in checkouts :
             /\ After(c) # {}
             /\ \A d \in After(c) :
                  IF /\ c.tenantId \in last'.tenants
                     /\ c.status = "PENDING"
                     /\ now - c.createdAt > 60
                  THEN d.status = "ABANDONED" /\ d.abandonedAt = now
                  ELSE d = c]_vars

\* C9 witness: a manual sweep of t1 at minute 61 has abandoned t1's checkout
\* created at minute 0 and left t2's checkout of the same age PENDING.
C9_Witness ==
    /\ last.op = "sweep" /\ last.tenants = {"t1"} /\ now = 61
    /\ \E c \in checkouts :
         /\ c.tenantId = "t1" /\ c.createdAt = 0
         /\ c.status = "ABANDONED" /\ c.abandonedAt = 61
    /\ \E c \in checkouts :
         c.tenantId = "t2" /\ c.createdAt = 0 /\ c.status = "PENDING"

----------------------------------------------------------------------------
(* SpecScenario: for each checkout of each tenant, one checkouts/create    *)
(* event with completed_at = null and one orders/create event naming the   *)
(* checkout in checkout_token, delivered at most once each, in any order.  *)

ScenarioCheckoutIds == {"c1", "c2"}

ScenarioCheckoutCreated(tenantId, c) ==
    /\ <<tenantId, c, "checkout">> \notin delivered
    /\ \E r \in routeWebhook(DB, cache, tenantId, "checkouts/create",
                    [id |-> c, cart_token |-> UNDEFINED, total_price |-> <<1, 0>>,
                     line_items |-> <<[quantity |-> 1]>>, completed_at |-> NoDate],
                    now) :
          /\ Apply(r)
          /\ last' = [NoOp EXCEPT !.op = "webhook", !.tenants = {tenantId},
                                  !.topic = "checkouts/create"]
    /\ delivered' = delivered \cup {<<tenantId, c, "checkout">>}
    /\ UNCHANGED <<now, tenants, redisUrl, redisUp, pc, run, writes, handlers, pass>>

ScenarioOrderCreated(tenantId, c) ==
    /\ <<tenantId, c, "order">> \notin delivered
    /\ \E r \in routeWebhook(DB, cache, tenantId, "orders/create",
                    [id |-> <<"order of", tenantId, c>>, total_price |-> <<1, 0>>,
                     customer |-> <<>>, line_items |-> <<>>, checkout_token |-> c],
                    now) :
          /\ Apply(r)
          /\ last' = [NoOp EXCEPT !.op = "webhook", !.tenants = {tenantId},
                                  !.topic = "orders/create"]
    /\ delivered' = delivered \cup {<<tenantId, c, "order">>}
    /\ UNCHANGED <<now, tenants, redisUrl, redisUp, pc, run, writes, handlers, pass>>

ScenarioCheckoutEvent ==
    \E tenantId \in TenantIds, c \in ScenarioCheckoutIds :
        ScenarioCheckoutCreated(tenantId, c)

ScenarioOrderEvent ==
    \E tenantId \in TenantIds, c \in ScenarioCheckoutIds :
        ScenarioOrderCreated(tenantId, c)

NextScenario ==
    \/ ScenarioCheckoutEvent
    \/ ScenarioOrderEvent
    \/ Tick

SpecScenario == Init /\ [][NextScenario]_vars

\* C3: once both the checkouts/create event (completed_at = null) of a
\* checkout and the orders/create event with its checkout_token have been
\* processed for a tenant, the checkout is COMPLETED with completedAt set,
\* whichever of the two was processed first.
C3_CompletedInEitherOrder ==
    \A tenantId \in TenantIds, c \in ScenarioCheckoutIds :
        {<<tenantId, c, "checkout">>, <<tenantId, c, "order">>} \subseteq delivered
        => \E row \in CheckoutByKey(checkouts, tenantId, c) :
               row.status = "COMPLETED" /\ row.completedAt # NoDate

(* SpecTieBreak: the events of SpecScenario and, for each checkout, one     *)
(* checkouts/update event that completes it (completed_at = minute 0), each *)
(* delivered at most once, in any order and at any time.                    *)

ScenarioCheckoutCompleted(tenantId, c) ==
    /\ <<tenantId, c, "completing">> \notin delivered
    /\ \E r \in routeWebhook(DB, cache, tenantId, "checkouts/update",
                    [id |-> c, cart_token |-> UNDEFINED, total_price |-> <<1, 0>>,
                     line_items |-> <<[quantity |-> 1]>>, completed_at |-> 0],
                    now) :
          /\ Apply(r)
          /\ last' = [NoOp EXCEPT !.op = "webhook", !.tenants = {tenantId},
                                  !.topic = "checkouts/update"]
    /\ delivered' = delivered \cup {<<tenantId, c, "completing">>}
    /\ UNCHANGED <<now, tenants, redisUrl, redisUp, pc, run, writes, handlers, pass>>

ScenarioCompletingEvent ==
    \E c \in ScenarioCheckoutIds : ScenarioCheckoutCompleted("t1", c)

TieBreakCheckoutEvent ==
    \E c \in ScenarioCheckoutIds : ScenarioCheckoutCreated("t1", c)

TieBreakOrderEvent ==
    \E c \in ScenarioCheckoutIds : ScenarioOrderCreated("t1", c)

NextTieBreak ==
    \/ TieBreakCheckoutEvent
    \/ TieBreakOrderEvent
    \/ ScenarioCompletingEvent
    \/ Tick

SpecTieBreak == Init /\ [][NextTieBreak]_vars

\* C28: when the completing checkout event (completed_at = minute 0) and the
\* order event naming the checkout have both been processed, the checkout's
\* completedAt is the value written by the one processed last: the event's
\* completed_at after the checkout event, the processing time after the
\* order event.
C28_LastProcessedWins ==
    [][\A c \in ScenarioCheckoutIds :
         (/\ {<<"t1", c, "completing">>, <<"t1", c, "order">>} \subseteq delivered'
          /\ delivered' \ delivered \subseteq {<<"t1", c, "completing">>, <<"t1", c, "order">>}
          /\ delivered' # delivered)
         => \A row \in CheckoutByKey(checkouts', "t1", c) :
               row.completedAt = IF last'.topic \in OrderTopics THEN now ELSE 0]_vars

----------------------------------------------------------------------------
(* SpecOrders: order events of one tenant, with and without a customer and *)
(* line items, processed one at a time.                                    *)

CustomerPayloads ==
    [id : {"u1", "u2"}, email : {"a@x", "b@x"},
     total_spent : {<<>>, <<5>>}, orders_count : {0, 1}]

LineItems ==
    { <<>>, <<[product_id |-> "p1", title |-> "T", price |-> <<3>>, quantity |-> 1]>> }

OrderPayloads ==
    [id : {"o1", "o2"}, total_price : {<<1, 0>>, <<2, 0>>},
     customer : {<<>>} \cup { <<c>> : c \in CustomerPayloads },
     line_items : LineItems, checkout_token : {UNDEFINED}]

OrderCreate ==
    \E payload \in OrderPayloads : Deliver("t1", "orders/create", payload)

OrderUpdated ==
    \E payload \in OrderPayloads : Deliver("t1", "orders/updated", payload)

NextOrders ==
    \/ OrderCreate
    \/ OrderUpdated

SpecOrders == Init /\ [][NextOrders]_vars

\* C4: after any sequence of order events, every Customer row has
\* totalSpent = the sum of total over the Order rows with its customerId and
\* tenantId, and ordersCount = the number of those rows.
C4_CustomerAggregates ==
    \A c \in customers :
        LET mine == OrdersOfCustomer(orders, c.tenantId, c.id)
        IN  c.totalSpent = SumTotal(mine) /\ c.ordersCount = Cardinality(mine)

----------------------------------------------------------------------------
(* Sync service (backfill).  remote is what the store API answers:         *)
(* [connected, products, customers, orders], each list a fetch             *)
(* [ok, items]; a fetch that is not ok is a request that threw.            *)

syncProduct(db, tenantId, product) ==
    LET price == IF Len(product.variants) > 0 /\ Len(product.variants[1].price) > 0
                 THEN parseFloat(product.variants[1].price)
                 ELSE 0
    IN  Done(UpsertProduct(db, tenantId, product.id, product.title, price))

syncCustomer(db, tenantId, customer) ==
    LET customerId == customer.id
        found      == CustomerById(db.customers, tenantId, customerId)
        created ==
            [id |-> customerId, tenantId |-> tenantId, email |-> customer.email,
             totalSpent |-> parseFloatOr0(customer.total_spent),
             ordersCount |-> customer.orders_count]
    IN  IF found = {}
        THEN IF EmailTaken(db.customers, customerId, tenantId, customer.email)
             THEN Threw(db)
             ELSE Done([db EXCEPT !.customers = @ \cup {created}])
        ELSE LET c == CHOOSE x \in found : TRUE
             IN  IF EmailTaken(db.customers, c.id, c.tenantId, customer.email)
                 THEN Threw(db)
                 ELSE Done([db EXCEPT !.customers =
                              (@ \ {c}) \cup {[c EXCEPT !.email = customer.email]}])

syncOrder(db, tenantId, order) ==
    LET orderId    == order.id
        total      == parseFloatOr0(order.total_price)
        customerId == IF Len(order.customer) > 0 THEN order.customer[1].id ELSE NULL
        found      == OrderById(db.orders, tenantId, orderId)
        created    == [id |-> orderId, tenantId |-> tenantId,
                       total |-> total, customerId |-> customerId,
                       createdAt |-> order.created_at]
        db1 == IF found = {}
               THEN [db EXCEPT !.orders = @ \cup {created}]
               ELSE [db EXCEPT !.orders =
                        (@ \ found) \cup { [o EXCEPT !.total = total,
                                                     !.customerId = customerId]
                                           : o \in found }]
    IN  Done(UpsertLineItems(db1, tenantId, order.line_items))

\* a loop that does not count the items whose upsert threw
SyncOne_dropErrors(acc, r) ==
    [db |-> r.db,
     count |-> IF r.threw THEN acc.count
               ELSE [acc.count EXCEPT !.synced = @ + 1]]

\* one pass of a for loop of syncTenantData: acc = [db, count]
SyncOne(acc, r) ==
    [db |-> r.db,
     count |-> IF r.threw
               THEN [acc.count EXCEPT !.errors = @ + 1]
               ELSE [acc.count EXCEPT !.synced = @ + 1]]

RECURSIVE SyncProducts(_, _, _)
SyncProducts(acc, tenantId, items) ==
    IF Len(items) = 0 THEN acc
    ELSE SyncProducts(SyncOne(acc, syncProduct(acc.db, tenantId, Head(items))),
                      tenantId, Tail(items))

RECURSIVE SyncCustomers(_, _, _)
SyncCustomers(acc, tenantId, items) ==
    IF Len(items) = 0 THEN acc
    ELSE SyncCustomers(SyncOne(acc, syncCustomer(acc.db, tenantId, Head(items))),
                       tenantId, Tail(items))

RECURSIVE SyncOrders(_, _, _)
SyncOrders(acc, tenantId, items) ==
    IF Len(items) = 0 THEN acc
    ELSE SyncOrders(SyncOne(acc, syncOrder(acc.db, tenantId, Head(items))),
                    tenantId, Tail(items))

\* the customers recalculateCustomerMetrics updates: WHERE c."tenantId" = tenantId
RecalcSelects(c, tenantId) == c.tenantId = tenantId

\* recalculateCustomerMetrics(tenantId)
recalculateCustomerMetrics(db, tenantId) ==
    [db EXCEPT !.customers =
        { IF RecalcSelects(c, tenantId)
          THEN LET mine == { o \in db.orders :
                               o.customerId = c.id /\ o.tenantId = tenantId }
               IN  [c EXCEPT !.totalSpent = SumTotal(mine),
                             !.ordersCount = Cardinality(mine)]
          ELSE c : c \in @ }]

\* syncTenantData(tenantId): [db, cache, result]
syncTenantData(db, entries, tenantId, remote) ==
    LET found  == { x \in tenants : x.id = tenantId }
        fail(d, res, msg, asked) == [db |-> d, cache |-> entries,
                                     result |-> [res EXCEPT !.error = msg],
                                     asked |-> asked]
        start  == [db |-> db, count |-> NoCount]
        afterP == SyncProducts(start, tenantId, remote.products.items)
        afterC == SyncCustomers([db |-> afterP.db, count |-> NoCount],
                                tenantId, remote.customers.items)
        afterO == SyncOrders([db |-> afterC.db, count |-> NoCount],
                             tenantId, remote.orders.items)
        resP   == [NoResult EXCEPT !.products = afterP.count]
        resC   == [resP EXCEPT !.customers = afterC.count]
        resO   == [resC EXCEPT !.orders = afterO.count]
    IN  IF found = {} THEN fail(db, NoResult, "Tenant not found", {})
        ELSE IF (CHOOSE x \in found : TRUE).accessToken = NULL
             THEN fail(db, NoResult, "No access token configured for this tenant", {})
        ELSE IF ~remote.connected
             THEN fail(db, NoResult, "Failed to connect to Shopify API", {"shop"})
        ELSE IF ~remote.products.ok
             THEN fail(db, NoResult, "Shopify API error", {"shop", "products"})
        ELSE IF ~remote.customers.ok
             THEN fail(afterP.db, resP, "Shopify API error",
                       {"shop", "products", "customers"})
        ELSE IF ~remote.orders.ok
             THEN fail(afterC.db, resC, "Shopify API error",
                       {"shop", "products", "customers", "orders"})
        ELSE [db |-> recalculateCustomerMetrics(afterO.db, tenantId),
              cache |-> invalidateMetricsCache(entries, tenantId),
              result |-> [resO EXCEPT !.success = TRUE],
              asked |-> {"shop", "products", "customers", "orders"}]

\* the answers of the store API to the requests the backfill made
Answers(remote, asked) ==
    LET answer(k) == IF k \in asked
                     THEN [ok |-> remote[k].ok, n |-> Len(remote[k].items)]
                     ELSE NoRemote[k]
    IN  [connected |-> "shop" \in asked /\ remote.connected,
         asked     |-> asked \ {"shop"},
         products  |-> answer("products"),
         customers |-> answer("customers"),
         orders    |-> answer("orders")]

\* await syncTenantData(tenantId)
Synced(tenantId, remote) ==
    LET r == syncTenantData(DB, cache, tenantId, remote)
    IN  /\ Apply(r)
        /\ last' = [NoOp EXCEPT !.op = "sync", !.tenants = {tenantId},
                                !.result = r.result,
                                !.remote = Answers(remote, r.asked)]

\* res.status(status).json({ error }) of POST /sync before any work
RejectSync(tenantId, status) ==
    /\ last' = [NoOp EXCEPT !.op = "sync", !.status = status,
                            !.tenants = {tenantId} \ {UNDEFINED}]
    /\ UNCHANGED <<checkouts, orders, customers, products, refunds, cache>>

\* POST /sync with body { tenantId }; a body without tenantId has UNDEFINED
SyncTenant(tenantId, remote) ==
    /\ IF tenantId = UNDEFINED THEN RejectSync(tenantId, 400)
       ELSE IF ~\E x \in tenants : x.id = tenantId THEN RejectSync(tenantId, 404)
       ELSE IF \E x \in tenants : x.id = tenantId /\ x.accessToken = NULL
       THEN RejectSync(tenantId, 400)
       ELSE LET r == syncTenantData(DB, cache, tenantId, remote)
            IN  /\ Apply(r)
                /\ last' = [NoOp EXCEPT !.op = "sync", !.tenants = {tenantId},
                               !.status = IF r.result.success THEN 200 ELSE 500,
                               !.result = r.result,
                               !.remote = Answers(remote, r.asked)]
    /\ UNCHANGED <<now, tenants, redisUrl, redisUp, delivered, pc, run, writes, handlers, pass>>

----------------------------------------------------------------------------
(* SpecIsolation: two tenants whose stores use the same source-system ids, *)
(* under order, customer and product events and syncs.                     *)

IsoCustomers ==
    [id : {"u1"}, email : {"a@x", "b@x"}, total_spent : {<<5>>}, orders_count : {1}]

IsoProducts ==
    [id : {"p1"}, title : {"T", "T2"}, variants : {<<[price |-> <<3>>]>>}]

IsoLineItems ==
    { <<>>, <<[product_id |-> "p1", title |-> "L", price |-> <<4>>, quantity |-> 1]>> }

IsoOrders ==
    [id : {"o1"}, total_price : {<<1, 0>>, <<2, 0>>},
     customer : {<<>>} \cup { <<c>> : c \in IsoCustomers },
     line_items : IsoLineItems, checkout_token : {UNDEFINED}, created_at : {0}]

Failed == [ok |-> FALSE, items |-> <<>>]
Fetched(items) == [ok |-> TRUE, items |-> items]

IsoSyncCustomers == { c \in IsoCustomers : c.email = "a@x" }

IsoSyncOrders ==
    { o \in IsoOrders :
        \/ o.total_price = <<1, 0>> /\ o.customer = <<>> /\ o.line_items = <<>>
        \/ o.total_price = <<2, 0>> /\ o.customer # <<>> /\ o.line_items # <<>>
                                  /\ o.customer[1].email = "b@x" }

Remotes ==
    [connected : {FALSE}, products : {Failed}, customers : {Failed}, orders : {Failed}]
    \cup
    [connected : {TRUE},
     products  : {Failed} \cup { Fetched(<<x>>) : x \in { q \in IsoProducts : q.title = "T" } },
     customers : {Failed, Fetched(<<>>)} \cup { Fetched(<<x>>) : x \in IsoSyncCustomers },
     orders    : {Failed} \cup { Fetched(<<x>>) : x \in IsoSyncOrders }]

IsoOrderEvent ==
    \E tenantId \in TenantIds, topic \in OrderTopics, payload \in IsoOrders :
        Deliver(tenantId, topic, payload)

IsoCustomerEvent ==
    \E tenantId \in TenantIds, topic \in CustomerTopics, payload \in IsoCustomers :
        Deliver(tenantId, topic, payload)

IsoProductEvent ==
    \E tenantId \in TenantIds, topic \in ProductTopics, payload \in IsoProducts :
        Deliver(tenantId, topic, payload)

IsoSync ==
    \E tenantId \in TenantIds \cup {"tX"}, remote \in Remotes :
        SyncTenant(tenantId, remote)

NextIsolation ==
    \/ IsoOrderEvent
    \/ IsoCustomerEvent
    \/ IsoProductEvent
    \/ IsoSync

SpecIsolation == Init /\ [][NextIsolation]_vars

\* C8: a webhook event or a sync processed for one tenant leaves every
\* Order, Customer, Product and Checkout row of every other tenant as it was,
\* also when the event carries an id equal to the id of such a row.
C8_TenantIsolation ==
    [][last'.op \in {"webhook", "sync"} =>
         /\ \A o \in orders    : o.tenantId \notin last'.tenants => o \in orders'
         /\ \A c \in customers : c.tenantId \notin last'.tenants => c \in customers'
         /\ \A p \in products  : p.tenantId \notin last'.tenants => p \in products'
         /\ \A c \in checkouts : c.tenantId \notin last'.tenants => c \in checkouts']_vars

\* C38: an order event for an order that is stored overwrites the mutable
\* fields of the row only (total; currency and rawJson are not modelled):
\* the row keeps its customerId and createdAt; and no webhook or backfill,
\* whichever tenant it is processed for, changes the id or the tenantId of
\* a stored order.
C38_OrderIdentityIsKept ==
    [][last'.op \in {"webhook", "sync"} =>
         \A o \in orders :
             \E d \in orders' :
                 /\ d.id = o.id
                 /\ d.tenantId = o.tenantId
                 /\ last'.op = "webhook" =>
                       d.customerId = o.customerId /\ d.createdAt = o.createdAt]_vars

\* C38 witness: the last event processed is an order event of t2 for order
\* o1, which was stored for t1: the event made no row for t2, and the row is
\* still t1's.
C38_Witness ==
    /\ last.op = "webhook" /\ last.tenants = {"t2"} /\ last.topic \in OrderTopics
    /\ orders # {}
    /\ \A o \in orders : o.id = "o1" /\ o.tenantId = "t1" /\ o.total = 20

\* the entity types of a backfill
EntityTypes == {"products", "customers", "orders"}

\* C19: in a backfill of a tenant that has an access token and whose store
\* answers the connection test, a fetch that fails is counted as an error of
\* its entity type and does not end the backfill: every entity type is
\* asked for, those whose fetch succeeds are upserted, the customer
\* aggregates are recomputed and the tenant's cache is invalidated.
C19_FetchFailureDoesNotAbort ==
    [][(/\ last'.op = "sync"
        /\ last'.remote.connected
        /\ \E tenant \in tenants :
              tenant.id \in last'.tenants /\ tenant.accessToken # NULL) =>
          LET failedTypes == { k \in last'.remote.asked : ~last'.remote[k].ok }
          IN  failedTypes # {} =>
                /\ \A k \in failedTypes : last'.result[k].errors > 0
                /\ last'.remote.asked = EntityTypes
                /\ \A k \in EntityTypes \ failedTypes :
                      last'.result[k].synced + last'.result[k].errors
                          = last'.remote[k].n
                /\ \A c \in customers' :
                      c.tenantId \in last'.tenants =>
                          LET mine == { o \in orders' : o.customerId = c.id
                                                        /\ o.tenantId = c.tenantId }
                          IN  c.totalSpent = SumTotal(mine)
                /\ \A e \in cache' : e.key[2] \notin last'.tenants]_vars

\* C16: after a customers/create or customers/update event for a customer
\* that already has a row, the row's totalSpent and ordersCount are the sum
\* and the count of the tenant's Order rows linked to the customer, not the
\* payload's total_spent and orders_count.  (Every customer event of
\* SpecIsolation names customer u1.)
C16_CustomerEventKeepsAggregates ==
    [][(last'.op = "webhook" /\ last'.topic \in CustomerTopics /\ ~last'.threw) =>
          \A c \in customers : \A d \in customers' :
              (d.id = c.id /\ d.tenantId \in last'.tenants) =>
                  LET mine == OrdersOfCustomer(orders', d.tenantId, d.id)
                  IN  /\ d.totalSpent = SumTotal(mine)
                      /\ d.ordersCount = Cardinality(mine)]_vars

----------------------------------------------------------------------------
(* Signature verifier.  A raw body and a signature are sequences of bits.  *)
(* HMAC-SHA256 in base64 is a keyed digest of fixed length that has no     *)
(* collisions on the secrets and bodies of the model.                      *)

Bits == {0, 1}

Bodies == UNION { [1..n -> Bits] : n \in 0..MaxBodyLen }

\* the length of a digest
DigestLen == MaxBodyLen + 3

RECURSIVE Pow2(_)
Pow2(n) == IF n = 0 THEN 1 ELSE 2 * Pow2(n - 1)

RECURSIVE BinValue(_)
BinValue(b) ==
    IF Len(b) = 0 THEN 0
    ELSE 2 * BinValue(SubSeq(b, 1, Len(b) - 1)) + b[Len(b)]

RECURSIVE ToBits(_, _)
ToBits(n, len) ==
    IF len = 0 THEN <<>>
    ELSE Append(ToBits(n \div 2, len - 1), n % 2)

\* crypto.createHmac('sha256', secret).update(rawBody, 'utf8').digest('base64')
Hmac(secret, rawBody) ==
    ToBits((secret - 1) * Pow2(MaxBodyLen + 1)
           + Pow2(Len(rawBody)) - 1 + BinValue(rawBody), DigestLen)

\* a comparison that leaves out the last byte
timingSafeEqual_short(a, b) ==
    IF Len(a) # Len(b) THEN "throw"
    ELSE IF SubSeq(a, 1, Len(a) - 1) = SubSeq(b, 1, Len(b) - 1) THEN "true"
    ELSE "false"

\* crypto.timingSafeEqual(a, b): "true", "false", or "throw" (RangeError) when
\* the byte lengths differ
timingSafeEqual(a, b) ==
    IF Len(a) # Len(b) THEN "throw"
    ELSE IF a = b THEN "true"
    ELSE "false"

verifyHmac(rawBody, hmacHeader, secret) ==
    timingSafeEqual(Hmac(secret, rawBody), hmacHeader)

\* findTenantByDomain(shopDomain)
findTenantByDomain(shopDomain) ==
    { tenant \in tenants : tenant.shopDomain = shopDomain }

\* express.json(): req.body parsed from the raw body.  The body lists the
\* fields completed_at and cart_token of the event and the id of its
\* customer; the other fields are fixed.
ParseBody(rawBody) ==
    [id |-> "c1",
     completed_at |-> IF Len(rawBody) >= 1 /\ rawBody[1] = 1 THEN 0 ELSE NoDate,
     cart_token |-> IF Len(rawBody) >= 2 /\ rawBody[2] = 1 THEN "k1" ELSE UNDEFINED,
     total_price |-> <<1, 0>>,
     line_items |-> <<>>,
     customer |-> <<[id |-> IF Len(rawBody) >= 1 /\ rawBody[1] = 1
                            THEN "u1" ELSE "u2",
                     email |-> "a@x", total_spent |-> <<5>>, orders_count |-> 1]>>,
     checkout_token |-> "c1"]

----------------------------------------------------------------------------
(* Inbound webhook endpoint *)

\* what a request is, told from its headers and body alone
RequestKind(req) ==
    LET found == { tenant \in tenants : tenant.shopDomain = req.shopDomain }
        signed == Hmac((CHOOSE x \in found : TRUE).webhookSecret, req.rawBody)
        diff == { i \in 1..DigestLen : signed[i] # req.hmacHeader[i] }
    IN  IF req.hmacHeader = <<>> \/ req.topic = "" \/ req.shopDomain = ""
        THEN "missing header"
        ELSE IF req.rawBody = <<>> THEN "no raw body"
        ELSE IF found = {} THEN "unknown tenant"
        ELSE IF req.hmacHeader = signed THEN "authentic"
        ELSE IF Len(req.hmacHeader) # DigestLen THEN "other length"
        ELSE IF Cardinality(diff) = 1 THEN "single mutation"
        ELSE "mismatch"

\* res.status(status).json(...) without processing
Reject(req, status, verify) ==
    /\ last' = [NoOp EXCEPT !.op = "request", !.status = status,
                            !.kind = RequestKind(req), !.verify = verify]
    /\ UNCHANGED <<checkouts, orders, customers, products, refunds, cache>>

\* a catch block that answers 500
ResponseStatus_500(threw) == IF threw THEN 500 ELSE 200

\* res.status(200) after routeWebhook, and res.status(200) in the catch block
ResponseStatus(threw) == IF threw THEN 200 ELSE 200

\* router.post('/shopify')
ShopifyWebhook(req) ==
    /\ IF req.hmacHeader = <<>> \/ req.topic = "" \/ req.shopDomain = ""
       THEN Reject(req, 400, "none")
       ELSE IF req.rawBody = <<>>
       THEN Reject(req, 500, "none")
       ELSE IF findTenantByDomain(req.shopDomain) = {}
       THEN Reject(req, 404, "none")
       ELSE LET tenant  == CHOOSE x \in findTenantByDomain(req.shopDomain) : TRUE
                isValid == verifyHmac(req.rawBody, req.hmacHeader, tenant.webhookSecret)
            IN  IF isValid = "throw" THEN Reject(req, ResponseStatus(TRUE), isValid)
                ELSE IF isValid = "false" THEN Reject(req, 401, isValid)
                ELSE \E r \in routeWebhook(DB, cache, tenant.id, req.topic,
                                           ParseBody(req.rawBody), now) :
                        /\ Apply(r)
                        /\ last' = [NoOp EXCEPT !.op = "request",
                                       !.status = ResponseStatus(r.threw),
                                       !.kind = RequestKind(req), !.verify = isValid,
                                       !.topic = req.topic, !.tenants = {tenant.id},
                                       !.routed = TRUE, !.threw = r.threw,
                                       !.success = ~r.threw]
    /\ UNCHANGED <<now, tenants, redisUrl, redisUp, delivered, pc, run, writes, handlers, pass>>

----------------------------------------------------------------------------
(* Dashboard metrics, read through the cache *)

\* the cache key of GET /tenants/:id/metrics
MetricsCacheKey(id, range) ==
    IF range = <<>> THEN MetricsKey(id) ELSE MetricsKey(id) \o range

\* a getCache without its try and catch
getCacheOn_uncaught(client, entries, key, t) ==
    IF client = "none" THEN [threw |-> FALSE, found |-> {}]
    ELSE IF client = "down" THEN [threw |-> TRUE, found |-> {}]
    ELSE [threw |-> FALSE,
          found |-> { e \in entries : e.key = key /\ e.expiresAt > t }]

\* getCache(key) with the client given: the live entries of the key, none
\* (null) without a client or when client.get is rejected, which is caught
getCacheOn(client, entries, key, t) ==
    IF client = "none" THEN [threw |-> FALSE, found |-> {}]
    ELSE IF client = "down" THEN [threw |-> FALSE, found |-> {}]
    ELSE [threw |-> FALSE,
          found |-> { e \in entries : e.key = key /\ e.expiresAt > t }]

\* getCache(key)
getCache(entries, key, t) == getCacheOn(getRedis, entries, key, t).found

\* setCache(key, data, CACHE_TTL.metrics) with the client given
setCacheOn(client, entries, key, data, t) ==
    IF client # "up" THEN entries
    ELSE { e \in entries : e.key # key }
         \cup { [key |-> key, data |-> data, expiresAt |-> t + CACHE_TTL_MINUTES] }

\* setCache(key, data, CACHE_TTL.metrics)
setCache(entries, key, data, t) == setCacheOn(getRedis, entries, key, data, t)

\* where: { tenantId: id, ...dateFilter }
InRange(o, id, range) ==
    /\ o.tenantId = id
    /\ (range = <<>> \/ (o.createdAt >= range[1] /\ o.createdAt <= range[2]))

\* GET /tenants/:id/metrics of an existing tenant with the client given:
\* the answer and the cache it leaves behind
MetricsResponse(client, entries, data, key, t) ==
    LET cached == getCacheOn(client, entries, key, t)
    IN  IF cached.threw
        THEN [status |-> 500, hit |-> FALSE, data |-> NoData, cache |-> entries]
        ELSE IF cached.found # {}
        THEN [status |-> 200, hit |-> TRUE,
              data |-> (CHOOSE e \in cached.found : TRUE).data, cache |-> entries]
        ELSE [status |-> 200, hit |-> FALSE, data |-> data,
              cache |-> setCacheOn(client, entries, key, data, t)]

ComputeMetrics(id, range) ==
    [customersCount |-> Cardinality({ c \in customers : c.tenantId = id }),
     ordersCount    |-> Cardinality({ o \in orders : InRange(o, id, range) }),
     totalRevenue   |-> SumTotal({ o \in orders : InRange(o, id, range) })]

\* router.get('/:id/metrics')
MetricsRead(id, range) ==
    /\ IF ~\E tenant \in tenants : tenant.id = id
       THEN /\ cache' = cache
            /\ last' = [NoOp EXCEPT !.op = "metrics", !.status = 404]
       ELSE LET r == MetricsResponse(getRedis, cache, ComputeMetrics(id, range),
                                     MetricsCacheKey(id, range), now)
            IN  /\ cache' = r.cache
                /\ last' = [NoOp EXCEPT !.op = "metrics", !.status = r.status,
                                        !.tenants = {id}, !.hit = r.hit,
                                        !.data = r.data]
    /\ UNCHANGED <<now, tenants, checkouts, orders, customers, products, refunds, redisUrl, redisUp,
                   delivered, pc, run, writes, handlers, pass>>

----------------------------------------------------------------------------
(* SpecWebhook: requests to the webhook endpoint, with and without the     *)
(* headers, for known and unknown shops, signed and not, and metrics reads *)
(* that fill the cache.                                                    *)

Signatures ==
    [1..DigestLen -> Bits]
    \cup { <<>>, [i \in 1..(DigestLen - 1) |-> 0], [i \in 1..(DigestLen + 1) |-> 0] }

Requests ==
    [hmacHeader : Signatures,
     topic : {"", "checkouts/update", "shop/update"},
     shopDomain : {"", "a.myshopify.com", "x.myshopify.com"},
     rawBody : Bodies]

InitWebhook ==
    /\ now = 0
    /\ InitTables
    /\ redisUrl \in BOOLEAN
    /\ redisUp = TRUE
    /\ cache = {}
    /\ last = NoOp
    /\ InitIdle

WebhookRequest == \E req \in Requests : ShopifyWebhook(req)

MetricsRequest ==
    \E id \in {"t1", "tX"}, range \in {<<>>, <<0, 60>>} : MetricsRead(id, range)

NextWebhook ==
    \/ WebhookRequest
    \/ MetricsRequest

SpecWebhook == InitWebhook /\ [][NextWebhook]_vars

\* C5: a webhook request that lacks a signature, topic or shop-domain
\* header, names an unknown shop, or carries a signature that does not match
\* the body is answered with a 4xx status, routeWebhook is not called and no
\* entity row and no cache entry is created, changed or removed.  (Requests
\* that have the headers but no captured body are left aside.)
C5_RejectedBeforeProcessing ==
    [][(last'.op = "request" /\ last'.kind \notin {"authentic", "no raw body"}) =>
          /\ last'.status \in 400..499
          /\ ~last'.routed
          /\ UNCHANGED <<checkouts, orders, customers, products, refunds, cache>>]_vars

\* C6: verifyHmac returns a boolean for every input; it never throws, also
\* not for a signature whose length differs from the digest's.
C6_VerifyNeverThrows ==
    last.op = "request" => last.verify \in {"none", "true", "false"}

----------------------------------------------------------------------------
(* SpecSweep: the scheduled all-tenant sweep and a manual per-tenant       *)
(* detection as two concurrent runs.  A run of detectAbandonedCheckouts    *)
(* takes two steps: it computes thresholdDate and abandonedAt and sends    *)
(* the updateMany, and the database executes the updateMany as one         *)
(* statement.  Checkout events fill the table before the runs start; once  *)
(* a run has started the two runs are the only writers.                    *)

\* the checkouts of the two stores: two of t1, one of t2
SweepCheckoutIds(tenantId) == IF tenantId = "t1" THEN {"c1", "c2"} ELSE {"c1"}

SweepPayloads(tenantId) ==
    [id : SweepCheckoutIds(tenantId), cart_token : {UNDEFINED},
     total_price : {<<1, 0>>}, line_items : {<<>>}, completed_at : {NoDate, now}]

RunsIdle == \A r \in Runs : pc[r] = "idle"

FillCheckouts ==
    /\ RunsIdle
    /\ \E tenantId \in TenantIds :
         \E payload \in SweepPayloads(tenantId) :
           \E r \in routeWebhook(DB, cache, tenantId, "checkouts/create", payload, now) :
               /\ Apply(r)
               /\ last' = [NoOp EXCEPT !.op = "webhook", !.tenants = {tenantId},
                                       !.topic = "checkouts/create"]
    /\ UNCHANGED <<now, tenants, redisUrl, redisUp, delivered, pc, run, writes, handlers, pass>>

\* detectAllAbandonedCheckouts: prisma.tenant.findMany
ScheduledStart ==
    /\ pc["scheduled"] = "idle"
    /\ pc' = [pc EXCEPT !["scheduled"] = "loop"]
    /\ run' = [run EXCEPT !["scheduled"].todo = { tenant.id : tenant \in tenants }]
    /\ last' = [NoOp EXCEPT !.op = "run"]
    /\ UNCHANGED <<now, tenants, checkouts, orders, customers, products, refunds, redisUrl, redisUp,
                   cache, delivered, writes, handlers, pass>>

\* POST /analytics/detect-abandoned/:tenantId: prisma.tenant.findUnique
ManualStart(tenantId) ==
    /\ pc["manual"] = "idle"
    /\ IF \E tenant \in tenants : tenant.id = tenantId
       THEN /\ pc' = [pc EXCEPT !["manual"] = "loop"]
            /\ run' = [run EXCEPT !["manual"].todo = {tenantId}]
            /\ last' = [NoOp EXCEPT !.op = "run"]
       ELSE /\ pc' = [pc EXCEPT !["manual"] = "done"]
            /\ run' = run
            /\ last' = [NoOp EXCEPT !.op = "run", !.status = 404]
    /\ UNCHANGED <<now, tenants, checkouts, orders, customers, products, refunds, redisUrl, redisUp,
                   cache, delivered, writes, handlers, pass>>

\* detectAbandonedCheckouts(tenantId) up to the await: thresholdDate and
\* abandonedAt are computed and the updateMany is sent
RunQuery(r) ==
    /\ pc[r] = "loop"
    /\ IF run[r].todo = {}
       THEN /\ pc' = [pc EXCEPT ![r] = "done"]
            /\ run' = run
       ELSE \E tenantId \in run[r].todo :
            /\ pc' = [pc EXCEPT ![r] = "update"]
            /\ run' = [run EXCEPT ![r].todo = @ \ {tenantId},
                                  ![r].tenantId = tenantId,
                                  ![r].thresholdDate = ThresholdDate(now),
                                  ![r].abandonedAt = now,
                                  ![r].overlap = @ \/ \E q \in Runs \ {r} :
                                                        pc[q] = "update"]
    /\ last' = [NoOp EXCEPT !.op = "run"]
    /\ UNCHANGED <<now, tenants, checkouts, orders, customers, products, refunds, redisUrl, redisUp,
                   cache, delivered, writes, handlers, pass>>

\* the database executes the updateMany of run r; the run adds result.count
RunUpdate(r) ==
    LET matched == { c.id : c \in { x \in checkouts :
                        SweepMatch(x, run[r].tenantId, run[r].thresholdDate) } }
    IN  /\ pc[r] = "update"
        /\ checkouts' = UpdateManyAbandoned(checkouts, run[r].tenantId,
                            run[r].thresholdDate, run[r].abandonedAt, now)
        /\ run' = [run EXCEPT
                     ![r].count = @ + UpdateManyCount(checkouts, run[r].tenantId,
                                                      run[r].thresholdDate),
                     ![r].hit = @ \cup matched,
                     ![r].swept = @ \cup {<<run[r].tenantId, run[r].thresholdDate,
                                            run[r].abandonedAt>>}]
        /\ writes' = [id \in DOMAIN writes \cup matched |->
                        (IF id \in DOMAIN writes THEN writes[id] ELSE 0)
                        + (IF id \in matched THEN 1 ELSE 0)]
        /\ pc' = [pc EXCEPT ![r] = "loop"]
        /\ last' = [NoOp EXCEPT !.op = "run", !.tenants = {run[r].tenantId}]
        /\ UNCHANGED <<now, tenants, orders, customers, products, refunds, redisUrl, redisUp,
                       cache, delivered, handlers, pass>>

ManualRun == \E tenantId \in TenantIds \cup {"tX"} : ManualStart(tenantId)

ScheduledStep == RunQuery("scheduled") \/ RunUpdate("scheduled")

ManualStep == RunQuery("manual") \/ RunUpdate("manual")

NextSweep ==
    \/ FillCheckouts
    \/ Tick
    \/ ScheduledStart
    \/ ManualRun
    \/ ScheduledStep
    \/ ManualStep

SpecSweep == Init /\ [][NextSweep]_vars

\* C10: when the scheduled sweep and a manual detection run concurrently,
\* every checkout is transitioned at most once, by one run only and with the
\* abandonedAt of that run, each run's count is the number of rows it
\* transitioned, and once both runs are done no checkout that a run found
\* old enough is still PENDING.
C10_ConcurrentSweeps ==
    /\ \A id \in DOMAIN writes : writes[id] = 1
    /\ run["scheduled"].hit \cap run["manual"].hit = {}
    /\ \A r \in Runs :
          /\ run[r].count = Cardinality(run[r].hit)
          /\ \A c \in checkouts :
                c.id \in run[r].hit =>
                    /\ c.status = "ABANDONED"
                    /\ \E s \in run[r].swept :
                          s[1] = c.tenantId /\ c.createdAt < s[2] /\ c.abandonedAt = s[3]
    /\ (\A r \in Runs : pc[r] = "done") =>
          \A c \in checkouts, r \in Runs :
              \A s \in run[r].swept :
                  (c.tenantId = s[1] /\ c.createdAt < s[2]) => c.status # "PENDING"

\* C10 witness: both runs are done, they overlapped in time on tenant t1,
\* and a checkout of t1 that both found old enough was transitioned by the
\* manual run.
C10_Witness ==
    /\ \A r \in Runs : pc[r] = "done"
    /\ run["manual"].overlap \/ run["scheduled"].overlap
    /\ \E c \in checkouts :
          /\ c.tenantId = "t1" /\ c.id \in run["manual"].hit
          /\ \E s \in run["scheduled"].swept : s[1] = "t1" /\ c.createdAt < s[2]

----------------------------------------------------------------------------
(* SpecAll: every kind of event (checkout, cart, order, customer, product, *)
(* refund), backfills and sweeps, processed one at a time.                 *)

AllCustomers ==
    [id : {"u1"}, email : {"a@x"}, total_spent : {<<5>>}, orders_count : {1}]

AllProducts ==
    [id : {"p1"}, title : {"T"}, variants : {<<[price |-> <<3>>]>>}]

AllRefunds ==
    [id : {"r1"}, order_id : {"o1"}, note : {UNDEFINED},
     transactions : {<<[amount |-> <<5>>, currency |-> "EUR"]>>},
     refund_line_items : {<<>>}]

\* what the store API of a tenant answers to a backfill
AllRemotes ==
    [connected : {TRUE},
     products  : { Fetched(<<x>>) : x \in AllProducts },
     customers : { Fetched(<<x>>) : x \in AllCustomers },
     orders    : { Fetched(<<[id |-> "o1", total_price |-> <<1, 0>>,
                              customer |-> <<>>, line_items |-> <<>>,
                              checkout_token |-> "c1", created_at |-> 0]>>) }]

CheckoutUpdate ==
    \E tenantId \in TenantIds, payload \in CheckoutPayloads :
        Deliver(tenantId, "checkouts/update", payload)

CartUpdate ==
    \E tenantId \in TenantIds, payload \in CartPayloads :
        Deliver(tenantId, "carts/update", payload)

OrdersUpdated ==
    \E tenantId \in TenantIds, payload \in PlainOrderPayloads :
        Deliver(tenantId, "orders/updated", payload)

CustomerEvent ==
    \E payload \in AllCustomers : Deliver("t1", "customers/update", payload)

ProductEvent ==
    \E payload \in AllProducts : Deliver("t1", "products/update", payload)

RefundEvent ==
    \E payload \in AllRefunds : Deliver("t1", "refunds/create", payload)

Backfill ==
    \E tenantId \in TenantIds, remote \in AllRemotes : SyncTenant(tenantId, remote)

\* time passes: more than the abandonment threshold
ThresholdPasses ==
    /\ now + ABANDONMENT_THRESHOLD_MINUTES + 1 <= MaxTime
    /\ now' = now + ABANDONMENT_THRESHOLD_MINUTES + 1
    /\ last' = [NoOp EXCEPT !.op = "tick"]
    /\ UNCHANGED <<tenants, checkouts, orders, customers, products, refunds, redisUrl, redisUp,
                   cache, delivered, pc, run, writes, handlers, pass>>

NextAll ==
    \/ CheckoutUpdate
    \/ CartUpdate
    \/ OrdersUpdated
    \/ CustomerEvent
    \/ ProductEvent
    \/ RefundEvent
    \/ Backfill
    \/ ManualSweep
    \/ ScheduledSweep
    \/ ThresholdPasses

SpecAll == Init /\ [][NextAll]_vars

\* C11: a step that gives a Checkout row the status ABANDONED, or sets its
\* abandonedAt, is a step of the sweeper (scheduled or manual); no webhook
\* event and no backfill does it.
C11_OnlySweeperAbandons ==
    [][\A d \in checkouts' :
         LET before == { c \in checkouts : c.id = d.id }
         IN  (\/ d.status = "ABANDONED" /\ \A c \in before : c.status # "ABANDONED"
              \/ d.abandonedAt # NoDate /\ \A c \in before : c.abandonedAt # d.abandonedAt)
             => last'.op = "sweep"]_vars

\* C11 witness: after a sweep has abandoned a checkout, a webhook event was
\* processed while another checkout, PENDING and older than the threshold,
\* was waiting for the next sweep; it is still PENDING.
C11_Witness ==
    /\ last.op = "webhook"
    /\ \E c \in checkouts : c.status = "ABANDONED" /\ c.abandonedAt # NoDate
    /\ \E c \in checkouts :
          c.status = "PENDING" /\ now - c.createdAt > ABANDONMENT_THRESHOLD_MINUTES
                               /\ c.abandonedAt = NoDate

\* the keys of the rows of a table: the tenant and the row's id
Keys(rows) == { <<x.tenantId, x.id>> : x \in rows }

\* C22: no step of a webhook handler, of a sweep or of a backfill removes a
\* row: the keys of the Order, Customer, Product, Checkout and Refund tables
\* before the step are keys after it, and so are the source-system keys of
\* the checkouts and refunds.
C22_NoEntityIsDeleted ==
    [][/\ Keys(orders) \subseteq Keys(orders')
       /\ Keys(customers) \subseteq Keys(customers')
       /\ Keys(products) \subseteq Keys(products')
       /\ Keys(checkouts) \subseteq Keys(checkouts')
       /\ Keys(refunds) \subseteq Keys(refunds')
       /\ { <<c.tenantId, c.shopifyCheckoutId>> : c \in checkouts }
            \subseteq { <<c.tenantId, c.shopifyCheckoutId>> : c \in checkouts' }
       /\ { <<r.tenantId, r.shopifyRefundId>> : r \in refunds }
            \subseteq { <<r.tenantId, r.shopifyRefundId>> : r \in refunds' }]_vars

\* C22 witness: every table has a row and the last step was a sweep that
\* moved a checkout to ABANDONED.
C22_Witness ==
    /\ last.op = "sweep" /\ last.count >= 1
    /\ orders # {} /\ customers # {} /\ products # {} /\ refunds # {}
    /\ \E c \in checkouts : c.status = "ABANDONED"

----------------------------------------------------------------------------
(* SpecIdem: orders/create events of one tenant, each delivered any number *)
(* of times, at the same time or later, between checkout events and        *)
(* sweeps.  last.payload is the payload of the last event delivered.       *)

IdemCustomers ==
    [id : {"u1", "u2"}, email : {"a@x"}, total_spent : {<<5>>}, orders_count : {1}]

\* order o1 in every shape, order o2 with one total and without line items
IdemOrders ==
    { o \in [id : {"o1", "o2"}, total_price : {<<1, 0>>, <<2, 0>>},
             customer : {<<>>} \cup { <<c>> : c \in IdemCustomers },
             line_items : LineItems, checkout_token : {UNDEFINED, "c1"}] :
        o.id = "o2" => (/\ o.total_price = <<2, 0>> /\ o.line_items = <<>>
                        /\ o.checkout_token = UNDEFINED) }

\* routeWebhook(tenantId, 'orders/create', payload)
OrderCreated(tenantId, payload) ==
    /\ \E r \in routeWebhook(DB, cache, tenantId, "orders/create", payload, now) :
          /\ Apply(r)
          /\ last' = [NoOp EXCEPT !.op = "webhook", !.tenants = {tenantId},
                                  !.topic = "orders/create", !.threw = r.threw,
                                  !.payload = <<payload>>]
    /\ UNCHANGED <<now, tenants, redisUrl, redisUp, delivered, pc, run, writes, handlers, pass>>

IdemOrderCreated == \E payload \in IdemOrders : OrderCreated("t1", payload)

IdemCheckoutCreated ==
    \E payload \in { c \in CheckoutPayloads : c.completed_at = NoDate } :
        Deliver("t1", "checkouts/create", payload)

IdemSweep == DetectAbandonedRequest("t1")

\* time passes between two deliveries
Elapse ==
    /\ now + ABANDONMENT_THRESHOLD_MINUTES + 1 <= MaxTime
    /\ now' = now + ABANDONMENT_THRESHOLD_MINUTES + 1
    /\ UNCHANGED <<tenants, checkouts, orders, customers, products, refunds, redisUrl, redisUp,
                   cache, last, delivered, pc, run, writes, handlers, pass>>

NextIdem ==
    \/ IdemOrderCreated
    \/ IdemCheckoutCreated
    \/ IdemSweep
    \/ Elapse

SpecIdem == Init /\ [][NextIdem]_vars

\* the stored rows without their timestamps
StripOrders(os) ==
    { [id |-> o.id, tenantId |-> o.tenantId, total |-> o.total,
       customerId |-> o.customerId] : o \in os }

StripCheckouts(cs) ==
    { [id |-> c.id, tenantId |-> c.tenantId,
       shopifyCheckoutId |-> c.shopifyCheckoutId,
       shopifyCartToken |-> c.shopifyCartToken, totalPrice |-> c.totalPrice,
       lineItemsCount |-> c.lineItemsCount, status |-> c.status,
       abandoned |-> c.abandonedAt # NoDate] : c \in cs }

\* C12: processing an orders/create payload again, right after it was
\* processed for the same tenant (at the same time or later), leaves the
\* Order, Customer, Product and Checkout rows as they were, timestamps aside;
\* so N deliveries leave the state that one delivery leaves.
C12_OrderCreateIdempotent ==
    [][(/\ last.op = "webhook" /\ last.topic = "orders/create"
        /\ last'.op = "webhook" /\ last'.topic = "orders/create"
        /\ last'.tenants = last.tenants
        /\ last'.payload = last.payload)
       => /\ StripOrders(orders') = StripOrders(orders)
          /\ customers' = customers
          /\ products' = products
          /\ StripCheckouts(checkouts') = StripCheckouts(checkouts)]_vars

\* C12 witness: an orders/create event with a customer, a line item and a
\* checkout token was delivered after the threshold had passed; its order,
\* customer and product are stored with the customer's aggregates derived
\* from the order, and its checkout is COMPLETED.
C12_Witness ==
    /\ last.op = "webhook" /\ last.topic = "orders/create" /\ ~last.threw
    /\ now > 0
    /\ last.payload[1].customer # <<>> /\ last.payload[1].line_items # <<>>
    /\ \E o \in orders : o.id = last.payload[1].id /\ o.createdAt = 0
    /\ \E c \in customers :
          c.id = last.payload[1].customer[1].id /\ c.ordersCount > 0
    /\ \E c \in checkouts :
          c.shopifyCheckoutId = last.payload[1].checkout_token
          /\ c.status = "COMPLETED" /\ c.abandonedAt # NoDate

----------------------------------------------------------------------------
(* SpecProcessing: signed requests to the webhook endpoint (order events   *)
(* with a customer, checkout events, events of an unhandled topic), metrics *)
(* reads that fill the cache, and sweeps.                                   *)

\* the request a store sends: the body signed with the store's secret
SignedRequests ==
    { [hmacHeader |-> Hmac(tenant.webhookSecret, rawBody),
       topic |-> topic, shopDomain |-> tenant.shopDomain, rawBody |-> rawBody]
      : tenant \in { x \in InitTenants : x.id = "t1" },
        topic \in {"orders/create", "checkouts/create", "shop/update"},
        rawBody \in Bodies \ {<<>>} }

SignedRequest == \E req \in SignedRequests : ShopifyWebhook(req)

NextProcessing ==
    \/ SignedRequest
    \/ MetricsRequest
    \/ IdemSweep
    \/ ScheduledSweep
    \/ ThresholdPasses

SpecProcessing == Init /\ [][NextProcessing]_vars

\* C13: a webhook request that passed the header, tenant and signature
\* checks is answered with status 200, also when routeWebhook raised an
\* error while handling it, and then with success = false.
C13_ProcessingFailureMasked ==
    (last.op = "request" /\ last.kind = "authentic") =>
        /\ last.routed
        /\ last.status = 200
        /\ last.threw => ~last.success

\* C13 witness: a signed orders/create request whose customer upsert failed
\* on the unique email, after the order row was written, was answered 200
\* with success = false.
C13_Witness ==
    /\ last.op = "request" /\ last.kind = "authentic"
    /\ last.topic = "orders/create" /\ last.threw
    /\ last.status = 200 /\ ~last.success
    /\ \E o \in orders : o.id = "c1"
    /\ Cardinality(customers) = 1

\* C30: an orders/create or orders/updated event with checkout_token = k
\* moves the tenant's checkout with shopifyCheckoutId = k to COMPLETED with
\* completedAt = now when that checkout is PENDING or ABANDONED; it creates
\* no Checkout row and changes no other, and none at all when the checkout
\* is COMPLETED or missing or the event has no checkout_token.
C30_OrderCompletesCheckout ==
    [][\A req \in SignedRequests :
          (req.topic \in OrderTopics /\ last'.topic = req.topic /\ ShopifyWebhook(req)) =>
              LET k == ParseBody(req.rawBody).checkout_token
                  open == { c \in CheckoutByKey(checkouts, "t1", k) :
                              k # UNDEFINED /\ c.status \in {"PENDING", "ABANDONED"} }
              IN  /\ \A c \in open :
                        /\ After(c) # {}
                        /\ \A d \in After(c) :
                              d.status = "COMPLETED" /\ d.completedAt = now
                  /\ \A c \in checkouts \ open : c \in checkouts'
                  /\ Cardinality(checkouts') = Cardinality(checkouts)]_vars

\* C23: a verified webhook request whose topic is none of the eleven routed
\* topics creates and changes no Order, Customer, Product, Checkout or Refund
\* row, routeWebhook returns without raising, and the request is answered
\* 200 with success = true.
C23_UnknownTopicDropped ==
    [][(/\ last'.op = "request" /\ last'.kind = "authentic"
        /\ last'.topic \notin OrderTopics \cup CustomerTopics \cup ProductTopics
                               \cup CheckoutTopics \cup CartTopics \cup RefundTopics)
       => /\ UNCHANGED tables
          /\ last'.routed /\ ~last'.threw
          /\ last'.status = 200 /\ last'.success]_vars

\* C23 witness: a signed shop/update request was answered 200 with success
\* while the tenant had order and checkout rows.
C23_Witness ==
    /\ last.op = "request" /\ last.kind = "authentic" /\ last.topic = "shop/update"
    /\ last.status = 200 /\ last.success
    /\ orders # {} /\ checkouts # {}

\* the cache entries of tenant tenantId that a read at time t would be served
LiveEntries(entries, tenantId, t) ==
    { e \in entries : e.key[2] = tenantId /\ e.expiresAt > t }

\* C14: when a call of routeWebhook ends, whatever the topic and whether or
\* not its handler failed, no cache entry of the tenant is left.
C14_RouterInvalidatesCache ==
    [][(last'.op = "request" /\ last'.routed) =>
          \A tenantId \in last'.tenants :
              LiveEntries(cache', tenantId, now') = {}]_vars

\* C15: after a sweep has transitioned at least one checkout of a tenant, no
\* cache entry of that tenant written before the sweep is left.
C15_SweepInvalidatesCache ==
    [][last'.op = "sweep" =>
          \A c \in checkouts :
              (c.status = "PENDING" /\ \E d \in After(c) : d.status = "ABANDONED")
              => LiveEntries(cache', c.tenantId, now') = {}]_vars

----------------------------------------------------------------------------
(* SpecRefunds: refunds/create events processed by two request handlers    *)
(* side by side.  A handler takes a request and computes the amount and    *)
(* the currency, the database executes its upsert as one statement, and    *)
(* routeWebhook invalidates the cache and returns.                         *)

RefundTransactions ==
    { <<>>,
      <<[amount |-> <<0>>, currency |-> "EUR"]>>,
      <<[amount |-> <<5>>, currency |-> "EUR"]>>,
      <<[amount |-> <<2>>, currency |-> UNDEFINED], [amount |-> <<>>, currency |-> "EUR"]>> }

RefundLineItems ==
    { <<>>, <<[quantity |-> 1, subtotal |-> 3], [quantity |-> 2, subtotal |-> 0]>> }

\* refunds without transactions, with transactions that sum to 0, to a
\* positive amount, and with an amount that is not a number
RefundPayloads ==
    { p \in [id : {"r1"}, order_id : {"o1"}, note : {UNDEFINED},
             transactions : RefundTransactions,
             refund_line_items : RefundLineItems] :
        \/ p.transactions = <<>>
        \/ p.refund_line_items = <<>> /\ SumTransactions(p.transactions) = 5
        \/ p.refund_line_items # <<>> /\ SumTransactions(p.transactions) # 5 }

\* the refunds of the two stores: store b.myshopify.com sends one of them
RefundsOf(tenantId) ==
    IF tenantId = "t1" THEN RefundPayloads
    ELSE { p \in RefundPayloads : SumTransactions(p.transactions) = 5 }

\* processRefund up to the await: amount and currency are computed and the
\* upsert is sent
RefundReceive(h, tenantId, payload) ==
    /\ handlers[h].pc = "idle"
    /\ handlers' = [handlers EXCEPT ![h] =
                       [NoHandler EXCEPT
                          !.pc = "upsert", !.tenantId = tenantId,
                          !.payload = <<payload>>,
                          !.amount = RefundAmount(payload),
                          !.currency = RefundCurrency(payload),
                          !.overlap = \E g \in HandlerIds \ {h} :
                                         handlers[g].pc = "upsert"]]
    /\ last' = [NoOp EXCEPT !.op = "handler"]
    /\ UNCHANGED <<now, tenants, checkouts, orders, customers, products, refunds,
                   redisUrl, redisUp, cache, delivered, pc, run, writes, pass>>

\* the database executes the upsert of handler h
RefundUpsert(h) ==
    /\ handlers[h].pc = "upsert"
    /\ refunds' = UpsertRefund(DB, handlers[h].tenantId, handlers[h].payload[1],
                               handlers[h].amount, handlers[h].currency).refunds
    /\ handlers' = [g \in HandlerIds |->
                       IF g = h
                       THEN [handlers[g] EXCEPT !.pc = "invalidate", !.latest = TRUE]
                       ELSE [handlers[g] EXCEPT !.latest = FALSE]]
    /\ last' = [NoOp EXCEPT !.op = "upsert"]
    /\ UNCHANGED <<now, tenants, checkouts, orders, customers, products,
                   redisUrl, redisUp, cache, delivered, pc, run, writes, pass>>

\* routeWebhook after processRefund: invalidateMetricsCache(tenantId); the
\* route answers 200 and the handler is free for the next request
RefundInvalidate(h) ==
    /\ handlers[h].pc = "invalidate"
    /\ cache' = invalidateMetricsCache(cache, handlers[h].tenantId)
    /\ handlers' = [handlers EXCEPT ![h] = NoHandler]
    /\ last' = [NoOp EXCEPT !.op = "handler", !.status = 200, !.success = TRUE]
    /\ UNCHANGED <<now, tenants, checkouts, orders, customers, products, refunds,
                   redisUrl, redisUp, delivered, pc, run, writes, pass>>

RefundRequest ==
    \E h \in HandlerIds, tenantId \in TenantIds :
        \E payload \in RefundsOf(tenantId) : RefundReceive(h, tenantId, payload)

RefundStep ==
    \E h \in HandlerIds : RefundUpsert(h) \/ RefundInvalidate(h)

NextRefunds ==
    \/ RefundRequest
    \/ RefundStep

SpecRefunds == Init /\ [][NextRefunds]_vars

\* C17: when two refunds/create events with the same (tenantId,
\* shopifyRefundId) and different amounts have both been upserted, one after
\* the other or by handlers that ran side by side, exactly one Refund row has
\* that key and its amount is the amount of the event upserted later.
C17_LaterRefundWins ==
    \A a \in HandlerIds, b \in HandlerIds :
        (/\ a # b
         /\ handlers[a].pc = "invalidate" /\ handlers[b].pc = "invalidate"
         /\ handlers[a].tenantId = handlers[b].tenantId
         /\ handlers[a].payload[1].id = handlers[b].payload[1].id
         /\ handlers[a].amount # handlers[b].amount
         /\ handlers[b].latest)
        => LET rows == { r \in refunds :
                          /\ r.tenantId = handlers[b].tenantId
                          /\ r.shopifyRefundId = handlers[b].payload[1].id }
           IN  /\ Cardinality(rows) = 1
               /\ \A r \in rows : r.amount = handlers[b].amount

\* C17 witness: handler B took its request while handler A was waiting for
\* its upsert, both events name refund r1 of tenant t1 with different
\* amounts, A's upsert was executed first and B's second, and the row has
\* B's amount.
C17_Witness ==
    /\ handlers["A"].pc = "invalidate" /\ handlers["B"].pc = "invalidate"
    /\ handlers["A"].tenantId = "t1" /\ handlers["B"].tenantId = "t1"
    /\ handlers["B"].overlap /\ handlers["B"].latest
    /\ handlers["A"].amount # handlers["B"].amount
    /\ \E r \in refunds :
          /\ r.tenantId = "t1" /\ r.shopifyRefundId = "r1"
          /\ r.amount = handlers["B"].amount
    /\ \E r \in refunds : r.tenantId = "t2"

\* C18: the amount an event stores is the sum of its transaction amounts when
\* the payload has transactions (also when they sum to 0), otherwise the sum
\* of its refund-line-item subtotals, otherwise 0; the currency stored is
\* the first transaction's currency, or "USD" when there is none.
C18_RefundAmountAndCurrency ==
    [][\A h \in HandlerIds :
         (handlers[h].pc = "upsert" /\ handlers'[h].pc = "invalidate") =>
             LET p    == handlers[h].payload[1]
                 rows == { r \in refunds' :
                             /\ r.tenantId = handlers[h].tenantId
                             /\ r.shopifyRefundId = p.id }
             IN  /\ rows # {}
                 /\ \A r \in rows :
                       /\ r.amount = IF Len(p.transactions) > 0
                                      THEN SumTransactions(p.transactions)
                                      ELSE SumSubtotals(p.refund_line_items)
                       /\ r.currency = IF Len(p.transactions) > 0
                                           /\ p.transactions[1].currency # UNDEFINED
                                        THEN p.transactions[1].currency
                                        ELSE "USD"]_vars

----------------------------------------------------------------------------
(* SpecSyncAll: the scheduled sync of all tenants, over three tenants of   *)
(* which any may lack an access token.  The pass reads the tenants that    *)
(* have a token and then syncs them one after the other, in the order the  *)
(* database returned them.                                                 *)

PassTenants ==
    InitTenants \cup { [id |-> "t3", name |-> "C", shopDomain |-> "c.myshopify.com",
                        webhookSecret |-> 3, accessToken |-> NULL] }

\* the Tenant tables: each tenant registered with or without an access token
TenantTables ==
    { { [x EXCEPT !.accessToken = token[x.id]] : x \in PassTenants }
      : token \in [{ x.id : x \in PassTenants } -> {"tok", NULL}] }

\* what a store answers during the pass: it is unreachable, it fails the
\* first fetch, or it returns one product and no customers and orders
PassRemotes ==
    { [connected |-> FALSE, products |-> Failed, customers |-> Failed, orders |-> Failed],
      [connected |-> TRUE, products |-> Failed, customers |-> Failed, orders |-> Failed],
      [connected |-> TRUE, products |-> Fetched(<<CHOOSE x \in AllProducts : TRUE>>),
       customers |-> Fetched(<<>>), orders |-> Fetched(<<>>)] }

InitSyncAll ==
    /\ now = 0
    /\ tenants \in TenantTables
    /\ checkouts = {} /\ orders = {} /\ customers = {} /\ products = {}
    /\ refunds = {}
    /\ redisUrl = TRUE
    /\ redisUp = TRUE
    /\ cache = {}
    /\ last = NoOp
    /\ InitIdle

\* where: { accessToken: { not: null } }
EligibleTenants(ts) == { tenant.id : tenant \in { x \in ts : x.accessToken # NULL } }

\* a loop that ends at the first sync that fails
AfterSync_abort(todo, tenantId, ok) == IF ok THEN todo \ {tenantId} ELSE {}

\* the tenants left for the for loop after the sync of tenantId
AfterSync(todo, tenantId, ok) == todo \ {tenantId}

\* the cron task '0 */6 * * *': syncAllTenants() up to the loop
SyncAllStart ==
    /\ pass.pc \in {"idle", "done"}
    /\ pass' = [pc |-> "loop", todo |-> EligibleTenants(tenants), log |-> <<>>]
    /\ last' = [NoOp EXCEPT !.op = "pass"]
    /\ UNCHANGED <<now, tenants, checkouts, orders, customers, products, refunds,
                   redisUrl, redisUp, cache, delivered, pc, run, writes, handlers>>

\* one turn of the loop: try { await syncTenantData(tenant.id) } catch { log }
SyncAllStep ==
    /\ pass.pc = "loop"
    /\ \E tenantId \in pass.todo, remote \in PassRemotes :
          /\ Synced(tenantId, remote)
          /\ pass' = [pass EXCEPT
                        !.todo = AfterSync(@, tenantId, last'.result.success),
                        !.log = Append(@, [id |-> tenantId,
                                           ok |-> last'.result.success])]
    /\ UNCHANGED <<now, tenants, redisUrl, redisUp, delivered, pc, run, writes, handlers>>

\* the loop has no tenant left: syncAllTenants returns
SyncAllEnd ==
    /\ pass.pc = "loop"
    /\ pass.todo = {}
    /\ pass' = [pass EXCEPT !.pc = "done"]
    /\ last' = [NoOp EXCEPT !.op = "pass"]
    /\ UNCHANGED <<now, tenants, checkouts, orders, customers, products, refunds,
                   redisUrl, redisUp, cache, delivered, pc, run, writes, handlers>>

NextSyncAll ==
    \/ SyncAllStart
    \/ SyncAllStep
    \/ SyncAllEnd

\* every request to a store returns, with an answer or with an error, so a
\* turn of the loop that has started ends
SpecSyncAll ==
    /\ InitSyncAll /\ [][NextSyncAll]_vars
    /\ WF_vars(SyncAllStep) /\ WF_vars(SyncAllEnd)

\* the tenants whose sync the pass has attempted
Attempted == { pass.log[i].id : i \in DOMAIN pass.log }

\* C20: a pass of syncAllTenants attempts no sync for a tenant without an
\* access token and no tenant twice, a pass that has started ends, and when
\* it has ended it has attempted the sync of every tenant that has an access
\* token, whichever of these syncs failed.
C20_SyncAllCoversEligible ==
    /\ [](/\ Attempted \subseteq EligibleTenants(tenants)
          /\ Cardinality(Attempted) = Len(pass.log)
          /\ pass.pc = "done" => Attempted = EligibleTenants(tenants))
    /\ (pass.pc = "loop" ~> pass.pc = "done")

\* C20 witness: a pass has ended in which the first sync failed and a later
\* one succeeded, while a tenant without an access token was left out.
C20_Witness ==
    /\ pass.pc = "done"
    /\ Len(pass.log) >= 2
    /\ ~pass.log[1].ok /\ pass.log[Len(pass.log)].ok
    /\ \E tenant \in tenants :
          tenant.accessToken = NULL /\ tenant.id \notin Attempted

----------------------------------------------------------------------------
(* SpecCache: signed webhook requests and metrics reads of one tenant, in  *)
(* a process started without REDIS_URL, with a Redis server that is down   *)
(* from the start (every command is rejected), or with a working server.   *)

InitCache ==
    /\ now = 0
    /\ InitTables
    /\ redisUrl \in BOOLEAN
    /\ redisUp \in BOOLEAN
    /\ cache = {}
    /\ last = NoOp
    /\ InitIdle

NextCache ==
    \/ SignedRequest
    \/ MetricsRequest
    \/ ThresholdPasses

SpecCache == InitCache /\ [][NextCache]_vars

\* C21: without a cache client, or with a client whose every command is
\* rejected, a metrics read of a tenant changes no entity row and answers
\* with the status and data that the same read gives against a working,
\* empty cache (the data computed from the store), and a verified webhook
\* request leaves the entity rows and answers with the status and success
\* flag that the same request gives against a working, empty cache.
C21_CacheFailuresUnobservable ==
    [][getRedis # "up" =>
          /\ \A range \in {<<>>, <<0, 60>>} :
                MetricsRead("t1", range) =>
                    LET ref == MetricsResponse("up", {}, ComputeMetrics("t1", range),
                                               MetricsCacheKey("t1", range), now)
                    IN  /\ last'.status = ref.status
                        /\ last'.data = ref.data
                        /\ UNCHANGED tables
          /\ \A req \in SignedRequests :
                ShopifyWebhook(req) =>
                    \E r \in routeWebhookOn("up", DB, {}, "t1", req.topic,
                                            ParseBody(req.rawBody), now) :
                        /\ checkouts' = r.db.checkouts
                        /\ orders' = r.db.orders
                        /\ customers' = r.db.customers
                        /\ products' = r.db.products
                        /\ refunds' = r.db.refunds
                        /\ last'.status = ResponseStatus(r.threw)
                        /\ last'.success = ~r.threw]_vars

\* C21 witness: with a Redis server that rejects every command, an order
\* was ingested and a metrics read answered 200 with the order counted.
C21_Witness ==
    /\ getRedis = "down"
    /\ last.op = "metrics" /\ last.status = 200 /\ ~last.hit
    /\ last.data.ordersCount >= 1
    /\ cache = {}

----------------------------------------------------------------------------
(* Checkout analytics.  A rate is a percentage with two decimals, counted  *)
(* in hundredths of a percent: 3333 is 33.33.                              *)

\* Math.round((n / d) * 100 * 100) / 100
RoundedPercent(n, d) == (20000 * n + d) \div (2 * d)

\* a rate computed without the test of the total: 0 / 0 is NaN
Rate_unguarded(n, d) == IF d = 0 THEN NaN ELSE RoundedPercent(n, d)

\* totalCheckouts > 0 ? (count / totalCheckouts) * 100 : 0, rounded
Rate(n, d) == IF d > 0 THEN RoundedPercent(n, d) ELSE 0

\* where: { tenantId, status, ...dateFilter }
AggregateCheckouts(cs, tenantId, status, startDate, endDate) ==
    { c \in cs : /\ c.tenantId = tenantId
                 /\ c.status = status
                 /\ (startDate = NoDate \/ c.createdAt >= startDate)
                 /\ (endDate = NoDate \/ c.createdAt <= endDate) }

RECURSIVE SumTotalPrice(_)
\* _sum: { totalPrice: true }, then || 0
SumTotalPrice(S) ==
    IF S = {} THEN 0
    ELSE LET c == CHOOSE x \in S : TRUE IN c.totalPrice + SumTotalPrice(S \ {c})

getAbandonmentAnalytics(cs, tenantId, startDate, endDate) ==
    LET completed == AggregateCheckouts(cs, tenantId, "COMPLETED", startDate, endDate)
        abandoned == AggregateCheckouts(cs, tenantId, "ABANDONED", startDate, endDate)
        pending   == AggregateCheckouts(cs, tenantId, "PENDING", startDate, endDate)
        completedCount == Cardinality(completed)
        abandonedCount == Cardinality(abandoned)
        pendingCount   == Cardinality(pending)
        totalCheckouts == completedCount + abandonedCount + pendingCount
    IN  [totalCheckouts |-> totalCheckouts,
         completedCheckouts |-> completedCount,
         abandonedCheckouts |-> abandonedCount,
         pendingCheckouts |-> pendingCount,
         conversionRate |-> Rate(completedCount, totalCheckouts),
         abandonmentRate |-> Rate(abandonedCount, totalCheckouts),
         abandonedValue |-> SumTotalPrice(abandoned),
         completedValue |-> SumTotalPrice(completed)]

\* router.get('/checkouts/:tenantId') with valid dates or none
CheckoutAnalytics(tenantId, startDate, endDate) ==
    /\ IF ~\E tenant \in tenants : tenant.id = tenantId
       THEN last' = [NoOp EXCEPT !.op = "analytics", !.status = 404]
       ELSE last' = [NoOp EXCEPT !.op = "analytics", !.status = 200,
                        !.tenants = {tenantId},
                        !.range = <<startDate, endDate>>,
                        !.analytics = getAbandonmentAnalytics(checkouts, tenantId,
                                                              startDate, endDate)]
    /\ UNCHANGED <<now, tenants, checkouts, orders, customers, products, refunds,
                   redisUrl, redisUp, cache, delivered, pc, run, writes, handlers, pass>>

(* SpecAnalytics: three checkouts of one tenant and one of another, created *)
(* completed or not, sweeps, and analytics requests over all dates and over *)
(* ranges that hold all, some or none of the checkouts.                     *)

AnalyticsPayloads(tenantId) ==
    [id : IF tenantId = "t1" THEN {"c1", "c2", "c3"} ELSE {"c1"},
     cart_token : {UNDEFINED}, total_price : {<<1, 0>>}, line_items : {<<>>},
     completed_at : IF tenantId = "t1" THEN {NoDate, now} ELSE {NoDate}]

\* a checkouts/create event of a checkout the store has not sent before
AnalyticsCheckoutCreated ==
    \E tenantId \in TenantIds :
        \E payload \in AnalyticsPayloads(tenantId) :
            /\ CheckoutByKey(checkouts, tenantId, payload.id) = {}
            /\ Deliver(tenantId, "checkouts/create", payload)

AnalyticsRequest ==
    \E tenantId \in {"t1", "tX"}, startDate \in {NoDate, 0, 1}, endDate \in {NoDate, 0} :
        CheckoutAnalytics(tenantId, startDate, endDate)

NextAnalytics ==
    \/ AnalyticsCheckoutCreated
    \/ ThresholdPasses
    \/ IdemSweep
    \/ AnalyticsRequest

SpecAnalytics == Init /\ [][NextAnalytics]_vars

\* C24: a checkout analytics request of a tenant is answered 200; when no
\* checkout of the tenant is in the date range both rates are 0; otherwise
\* totalCheckouts is the sum of the completed, abandoned and pending counts
\* and each rate is the share of its count in that total, as a percentage
\* rounded to the nearest hundredth.
C24_AnalyticsRates ==
    (last.op = "analytics" /\ last.tenants # {}) =>
        LET a == last.analytics
            inRange == { c \in checkouts :
                           /\ c.tenantId \in last.tenants
                           /\ (last.range[1] = NoDate \/ c.createdAt >= last.range[1])
                           /\ (last.range[2] = NoDate \/ c.createdAt <= last.range[2]) }
            Near(rate, n) == /\ 2 * (rate * a.totalCheckouts - 10000 * n) <= a.totalCheckouts
                             /\ 2 * (10000 * n - rate * a.totalCheckouts) <= a.totalCheckouts
        IN  /\ last.status = 200
            /\ a.totalCheckouts = Cardinality(inRange)
            /\ a.totalCheckouts = a.completedCheckouts + a.abandonedCheckouts
                                  + a.pendingCheckouts
            /\ inRange = {} => a.conversionRate = 0 /\ a.abandonmentRate = 0
            /\ inRange # {} => /\ Near(a.conversionRate, a.completedCheckouts)
                               /\ Near(a.abandonmentRate, a.abandonedCheckouts)

\* C24 witness: the analytics of a tenant with one completed, one abandoned
\* and one pending checkout: both rates are 33.33; and a request over a
\* date range without checkouts is answered with rates 0.
C24_Witness ==
    /\ last.op = "analytics" /\ last.status = 200
    /\ last.analytics.totalCheckouts = 3
    /\ last.analytics.conversionRate = 3333
    /\ last.analytics.abandonmentRate = 3333
    /\ getAbandonmentAnalytics(checkouts, "t1", 1, 0).totalCheckouts = 0
    /\ getAbandonmentAnalytics(checkouts, "t1", 1, 0).conversionRate = 0

----------------------------------------------------------------------------
(* Administrative requests: tenant registration by two request handlers    *)
(* side by side, and manual syncs.  A registration takes two steps: the    *)
(* validation with the lookup of the shop domain, and the insert, which    *)
(* the unique index on shopDomain rejects when the domain is taken.        *)

\* a body of POST /tenants without webhookSecret (secrets are numbered from 1)
NoSecret == 0

\* the bodies of POST /tenants: any field may be missing
RegistrationBodies ==
    [name : {UNDEFINED, "C"},
     shopDomain : {UNDEFINED, "a.myshopify.com", "c.myshopify.com"},
     webhookSecret : {NoSecret, 3},
     accessToken : {UNDEFINED, "tok"}]

\* a validation that does not ask for webhookSecret
MissingFields_secretOptional(body) ==
    body.name = UNDEFINED \/ body.shopDomain = UNDEFINED

\* if (!name || !shopDomain || !webhookSecret)
MissingFields(body) ==
    body.name = UNDEFINED \/ body.shopDomain = UNDEFINED
                          \/ body.webhookSecret = NoSecret

\* @default(cuid()): the id of the next Tenant row
NewTenantId(ts) == IF Cardinality(ts) = 2 THEN "t3" ELSE "t4"

\* res.status(status).json(...) of POST /tenants
RegistrationAnswer(h, body, status) ==
    /\ last' = [NoOp EXCEPT !.op = "register", !.status = status,
                            !.payload = <<body>>]
    /\ handlers' = [handlers EXCEPT ![h] = NoHandler]

\* router.post('/') of the tenants router up to prisma.tenant.create
RegisterStart(h, body) ==
    /\ handlers[h].pc = "idle"
    /\ IF MissingFields(body) THEN RegistrationAnswer(h, body, 400)
       ELSE IF findTenantByDomain(body.shopDomain) # {}
       THEN RegistrationAnswer(h, body, 409)
       ELSE /\ handlers' = [handlers EXCEPT ![h] =
                              [NoHandler EXCEPT !.pc = "create", !.payload = <<body>>]]
            /\ last' = [NoOp EXCEPT !.op = "lookup"]
    /\ UNCHANGED <<now, tenants, checkouts, orders, customers, products, refunds,
                   redisUrl, redisUp, cache, delivered, pc, run, writes, pass>>

\* prisma.tenant.create and the answer: 201, or 500 from the catch block
\* when the insert breaks the unique index on shopDomain
RegisterCreate(h) ==
    /\ handlers[h].pc = "create"
    /\ LET body == handlers[h].payload[1]
       IN  IF findTenantByDomain(body.shopDomain) # {}
           THEN /\ tenants' = tenants
                /\ RegistrationAnswer(h, body, 500)
           ELSE /\ tenants' = tenants \cup
                       { [id |-> NewTenantId(tenants), name |-> body.name,
                          shopDomain |-> body.shopDomain,
                          webhookSecret |-> body.webhookSecret,
                          accessToken |-> OrNull(body.accessToken)] }
                /\ RegistrationAnswer(h, body, 201)
    /\ UNCHANGED <<now, checkouts, orders, customers, products, refunds,
                   redisUrl, redisUp, cache, delivered, pc, run, writes, pass>>

(* SpecAdmin: registrations with and without the required fields, for a    *)
(* new and for a registered shop domain, and manual syncs with and without *)
(* tenantId, for tenants with and without an access token; every store     *)
(* can be reached.                                                         *)

AdminRemotes ==
    [connected : {TRUE},
     products  : { Fetched(<<x>>) : x \in AllProducts } \cup {Failed},
     customers : {Fetched(<<>>)},
     orders    : {Fetched(<<>>)}]

Registration ==
    \E h \in HandlerIds :
        \/ \E body \in RegistrationBodies : RegisterStart(h, body)
        \/ RegisterCreate(h)

AdminSync ==
    \E tenantId \in TenantIds \cup {"t3", "tX", UNDEFINED}, remote \in AdminRemotes :
        SyncTenant(tenantId, remote)

NextAdmin ==
    \/ Registration
    \/ AdminSync

SpecAdmin == Init /\ [][NextAdmin]_vars

\* a registration body that lacks name, shopDomain or webhookSecret
LacksField(body) ==
    \/ \E f \in {"name", "shopDomain"} : body[f] = UNDEFINED
    \/ body.webhookSecret = NoSecret

\* the request of the last step named a tenant that has no access token
SyncWithoutToken ==
    \E x \in tenants : x.id \in last.tenants /\ x.accessToken = NULL

\* C25: a registration without name, shopDomain or webhookSecret is answered
\* with a 4xx status and creates no Tenant; a registration for a shop domain
\* that a Tenant has creates no Tenant, and is answered 4xx when the lookup
\* finds that Tenant; no two Tenants ever have the same shop domain, also
\* when two registrations run side by side; a manual sync without tenantId
\* or for a tenant without access token is answered with a 4xx status, sends
\* no request to the store and changes no row.
C25_AdminValidation ==
    /\ [][/\ \A h \in HandlerIds, body \in RegistrationBodies :
               (RegisterStart(h, body) /\ LacksField(body)) =>
                   last'.op = "register" /\ last'.status \in 400..499
          /\ \A h \in HandlerIds, body \in RegistrationBodies :
               (/\ RegisterStart(h, body)
                /\ ~LacksField(body)
                /\ \E x \in tenants : x.shopDomain = body.shopDomain) =>
                   last'.op = "register" /\ last'.status \in 400..499
          /\ last'.op = "register" =>
               LET body == last'.payload[1]
               IN  (\/ LacksField(body)
                    \/ \E x \in tenants : x.shopDomain = body.shopDomain)
                   => tenants' = tenants
          /\ (last'.op = "sync" /\ (last'.tenants = {} \/ SyncWithoutToken')) =>
               /\ last'.status \in 400..499
               /\ last'.remote = NoRemote
               /\ UNCHANGED <<tables, cache>>]_vars
    /\ [](\A x, y \in tenants : x.shopDomain = y.shopDomain => x = y)

\* C25 witness: two registrations of the same new shop domain ran side by
\* side; one created the Tenant, without access token, and the insert of
\* the other was refused by the unique index.
C25_Witness ==
    /\ Cardinality(tenants) = 3
    /\ last.op = "register" /\ last.status = 500
    /\ last.payload[1].shopDomain = "c.myshopify.com"
    /\ \E x \in tenants : x.id = "t3" /\ x.accessToken = NULL

----------------------------------------------------------------------------
(* SpecCompletion: order events processed by two request handlers side by  *)
(* side with checkout events and sweeps.  The handler of an order event    *)
(* upserts the order, then markCheckoutCompleted sends a findFirst and,    *)
(* after its answer, an update by id; every statement is executed by the   *)
(* database on its own, and other statements may be executed in between.   *)

\* the locals of an order handler that has no request: the tenant and the
\* payload of its request and the checkout row its findFirst returned
NoCompletion == [pc |-> "idle", tenantId |-> "", payload |-> <<>>,
                 checkout |-> <<>>, overlap |-> FALSE]

InitCompletion ==
    /\ now = 0
    /\ InitTables
    /\ redisUrl = TRUE
    /\ redisUp = TRUE
    /\ cache = {}
    /\ last = NoOp
    /\ delivered = {}
    /\ pc = [r \in Runs |-> "idle"]
    /\ run = [r \in Runs |-> NoRun]
    /\ writes = <<>>
    /\ handlers = [h \in HandlerIds |-> NoCompletion]
    /\ pass = NoPass

\* routeWebhook for an order topic up to the second await: the order upsert
\* of processOrderCreated is executed
CompletionReceive(h, tenantId, payload) ==
    /\ handlers[h].pc = "idle"
    /\ \E r \in processOrderCreated(DB, tenantId, payload, now) :
          /\ orders' = r.db.orders
          /\ customers' = r.db.customers
          /\ products' = r.db.products
    /\ handlers' = [handlers EXCEPT ![h] =
                       [NoCompletion EXCEPT
                          !.pc = IF payload.checkout_token = UNDEFINED
                                 THEN "invalidate" ELSE "lookup",
                          !.tenantId = tenantId,
                          !.payload = <<payload>>]]
    /\ last' = [NoOp EXCEPT !.op = "handler", !.tenants = {tenantId}]
    /\ UNCHANGED <<now, tenants, checkouts, refunds, redisUrl, redisUp, cache,
                   delivered, pc, run, writes, pass>>

\* markCheckoutCompleted: the database answers the findFirst; the handler
\* tests checkout && checkout.status !== 'COMPLETED' on the row returned
CompletionLookup(h) ==
    LET found == { c \in checkouts :
                     /\ c.tenantId = handlers[h].tenantId
                     /\ c.shopifyCheckoutId = handlers[h].payload[1].checkout_token }
    IN  /\ handlers[h].pc = "lookup"
        /\ IF found = {}
           THEN handlers' = [handlers EXCEPT ![h].pc = "invalidate"]
           ELSE \E checkout \in found :
                  handlers' = [handlers EXCEPT
                     ![h].pc = IF NeedsCompletion(checkout)
                               THEN "write" ELSE "invalidate",
                     ![h].checkout = <<checkout>>,
                     ![h].overlap = FALSE]
        /\ last' = [NoOp EXCEPT !.op = "lookup"]
        /\ UNCHANGED <<now, tenants, checkouts, orders, customers, products, refunds,
                       redisUrl, redisUp, cache, delivered, pc, run, writes, pass>>

\* an update that tests the status in its where clause:
\* updateMany({ where: { id, status: { not: 'COMPLETED' } }, data })
CompletionUpdate_conditional(cs, seen, t) ==
    { IF c.id = seen.id /\ c.status = seen.status
      THEN [c EXCEPT !.status = "COMPLETED", !.completedAt = t, !.updatedAt = t]
      ELSE c : c \in cs }

\* prisma.checkout.update({ where: { id: checkout.id },
\*                          data: { status: 'COMPLETED', completedAt: new Date() } })
CompletionUpdate(cs, seen, t) ==
    { IF c.id = seen.id
      THEN [c EXCEPT !.status = "COMPLETED", !.completedAt = t, !.updatedAt = t]
      ELSE c : c \in cs }

\* markCheckoutCompleted: the database executes the update by id
CompletionWrite(h) ==
    /\ handlers[h].pc = "write"
    /\ checkouts' = CompletionUpdate(checkouts, handlers[h].checkout[1], now)
    /\ handlers' = [handlers EXCEPT ![h].pc = "invalidate"]
    /\ last' = [NoOp EXCEPT !.op = "write", !.tenants = {handlers[h].tenantId}]
    /\ UNCHANGED <<now, tenants, orders, customers, products, refunds,
                   redisUrl, redisUp, cache, delivered, pc, run, writes, pass>>

\* routeWebhook after the switch: invalidateMetricsCache(tenantId)
CompletionInvalidate(h) ==
    /\ handlers[h].pc = "invalidate"
    /\ cache' = invalidateMetricsCache(cache, handlers[h].tenantId)
    /\ handlers' = [handlers EXCEPT ![h] = NoCompletion]
    /\ last' = [NoOp EXCEPT !.op = "handler", !.status = 200, !.success = TRUE]
    /\ UNCHANGED <<now, tenants, checkouts, orders, customers, products, refunds,
                   redisUrl, redisUp, delivered, pc, run, writes, pass>>

\* a statement of another handler or of the sweeper is executed while a
\* handler is between its findFirst and its update
Overtaken ==
    /\ handlers' = [h \in HandlerIds |->
                      IF handlers[h].pc = "write"
                      THEN [handlers[h] EXCEPT !.overlap = TRUE]
                      ELSE handlers[h]]

\* the events of the two stores: the checkouts are store a.myshopify.com's,
\* the orders of store b.myshopify.com carry no checkout_token
CompletionOrders(tenantId) ==
    { p \in PlainOrderPayloads :
        (p.checkout_token = UNDEFINED) <=> (tenantId # "t1") }

CompletionCheckoutEvent ==
    \E tenantId \in {"t1"}, payload \in CheckoutPayloads :
        \E r \in routeWebhook(DB, cache, tenantId, "checkouts/update", payload, now) :
            /\ Apply(r)
            /\ Overtaken
            /\ last' = [NoOp EXCEPT !.op = "webhook", !.tenants = {tenantId},
                                    !.topic = "checkouts/update"]
            /\ UNCHANGED <<now, tenants, redisUrl, redisUp, delivered, pc, run,
                           writes, pass>>

CompletionSweep ==
    /\ checkouts' = detectAll(checkouts, tenants, now)
    /\ Overtaken
    /\ last' = [NoOp EXCEPT !.op = "sweep",
                            !.tenants = { tenant.id : tenant \in tenants },
                            !.count = totalAbandoned(checkouts, tenants, now)]
    /\ UNCHANGED <<now, tenants, orders, customers, products, refunds, redisUrl,
                   redisUp, cache, delivered, pc, run, writes, pass>>

CompletionRequest ==
    \E h \in HandlerIds, tenantId \in TenantIds :
        \E payload \in CompletionOrders(tenantId) :
            CompletionReceive(h, tenantId, payload)

CompletionStep ==
    \E h \in HandlerIds :
        CompletionLookup(h) \/ CompletionWrite(h) \/ CompletionInvalidate(h)

NextCompletion ==
    \/ CompletionRequest
    \/ CompletionStep
    \/ CompletionCheckoutEvent
    \/ CompletionSweep
    \/ Tick

SpecCompletion == InitCompletion /\ [][NextCompletion]_vars

\* C31: under every interleaving with other handlers and the sweeper, an
\* order-driven completion changes a checkout row only if the row, at the
\* moment of the update, is not COMPLETED and still has the status the
\* handler's lookup returned.
C31_CompletionIsAtomic ==
    [][\A h \in HandlerIds :
         (/\ handlers[h].pc = "write" /\ handlers'[h].pc = "invalidate"
          /\ checkouts' # checkouts) =>
             \A c \in checkouts :
                 c.id = handlers[h].checkout[1].id =>
                     /\ c.status # "COMPLETED"
                     /\ c.status = handlers[h].checkout[1].status]_vars

----------------------------------------------------------------------------
(* SpecOrderRace: two order events of one store processed by two request   *)
(* handlers side by side.  processOrderCreated sends four statements one   *)
(* after the other: the order upsert, the customer upsert, the aggregate   *)
(* query over the customer's orders, and the update of the customer with   *)
(* the aggregates it read; the database executes each on its own.          *)

\* the locals of an order handler that has no request: the payload of its
\* request, the row the aggregate query returned, whether it ended by throwing
NoOrderHandler == [pc |-> "idle", payload |-> <<>>, orderStats |-> <<>>,
                   threw |-> FALSE]

InitOrderRace ==
    /\ now = 0
    /\ InitTables
    /\ redisUrl = TRUE
    /\ redisUp = TRUE
    /\ cache = {}
    /\ last = NoOp
    /\ delivered = {}
    /\ pc = [r \in Runs |-> "idle"]
    /\ run = [r \in Runs |-> NoRun]
    /\ writes = <<>>
    /\ handlers = [h \in HandlerIds |-> NoOrderHandler]
    /\ pass = NoPass

\* orders o1 and o2 of customer u1 or u2; the two customers have one address
RaceCustomers ==
    [id : {"u1", "u2"}, email : {"a@x"}, total_spent : {<<>>, <<5>>},
     orders_count : {1}]

RaceOrders ==
    [id : {"o1", "o2"}, total_price : {<<1, 0>>, <<2, 0>>},
     customer : { <<c>> : c \in RaceCustomers },
     line_items : {<<>>}, checkout_token : {UNDEFINED}]

\* processOrderCreated up to the second await: the order upsert is executed
RaceReceive(h, payload) ==
    /\ handlers[h].pc = "idle"
    /\ orders' = UpsertOrder(DB, "t1", payload, now).orders
    /\ handlers' = [handlers EXCEPT ![h] =
                       [NoOrderHandler EXCEPT !.pc = "customer",
                                              !.payload = <<payload>>]]
    /\ last' = [NoOp EXCEPT !.op = "handler", !.tenants = {"t1"}]
    /\ UNCHANGED <<now, tenants, checkouts, customers, products, refunds,
                   redisUrl, redisUp, cache, delivered, pc, run, writes, pass>>

\* processCustomer(tenantId, payload.customer): the customer upsert is
\* executed; an error leaves processOrderCreated and routeWebhook
RaceCustomer(h) ==
    /\ handlers[h].pc = "customer"
    /\ \E r \in processCustomer(DB, "t1", handlers[h].payload[1].customer[1], now) :
          /\ customers' = r.db.customers
          /\ handlers' = [handlers EXCEPT
                            ![h].pc = IF r.threw THEN "done" ELSE "read",
                            ![h].threw = r.threw]
    /\ last' = [NoOp EXCEPT !.op = "upsert"]
    /\ UNCHANGED <<now, tenants, checkouts, orders, products, refunds,
                   redisUrl, redisUp, cache, delivered, pc, run, writes, pass>>

\* the $queryRaw over the customer's orders is executed
RaceRead(h) ==
    LET mine == OrdersOfCustomer(orders, "t1", handlers[h].payload[1].customer[1].id)
    IN  /\ handlers[h].pc = "read"
        /\ handlers' = [handlers EXCEPT
                          ![h].pc = "write",
                          ![h].orderStats = <<[totalSpent |-> SumTotal(mine),
                                               ordersCount |-> Cardinality(mine)]>>]
        /\ last' = [NoOp EXCEPT !.op = "lookup"]
        /\ UNCHANGED <<now, tenants, checkouts, orders, customers, products, refunds,
                       redisUrl, redisUp, cache, delivered, pc, run, writes, pass>>

\* customer.update({ where: { id: customerId }, data: orderStats })
RaceWrite(h) ==
    /\ handlers[h].pc = "write"
    /\ customers' =
          { IF c.id = handlers[h].payload[1].customer[1].id
            THEN [c EXCEPT !.totalSpent = handlers[h].orderStats[1].totalSpent,
                           !.ordersCount = handlers[h].orderStats[1].ordersCount]
            ELSE c : c \in customers }
    /\ handlers' = [handlers EXCEPT ![h].pc = "invalidate"]
    /\ last' = [NoOp EXCEPT !.op = "write"]
    /\ UNCHANGED <<now, tenants, checkouts, orders, products, refunds,
                   redisUrl, redisUp, cache, delivered, pc, run, writes, pass>>

\* routeWebhook after processOrderCreated: the payload has no checkout_token
\* and no line items; invalidateMetricsCache(tenantId)
RaceInvalidate(h) ==
    /\ handlers[h].pc = "invalidate"
    /\ cache' = invalidateMetricsCache(cache, "t1")
    /\ handlers' = [handlers EXCEPT ![h].pc = "done"]
    /\ last' = [NoOp EXCEPT !.op = "handler", !.status = 200, !.success = TRUE]
    /\ UNCHANGED <<now, tenants, checkouts, orders, customers, products, refunds,
                   redisUrl, redisUp, delivered, pc, run, writes, pass>>

RaceRequest ==
    \E h \in HandlerIds, payload \in RaceOrders : RaceReceive(h, payload)

RaceStep ==
    \E h \in HandlerIds :
        RaceCustomer(h) \/ RaceRead(h) \/ RaceWrite(h) \/ RaceInvalidate(h)

NextOrderRace ==
    \/ RaceRequest
    \/ RaceStep

SpecOrderRace == InitOrderRace /\ [][NextOrderRace]_vars

\* C32: once two handlers that processed order events for different orders
\* of one customer side by side have both finished, the customer's
\* totalSpent and ordersCount are the sum and the count over the customer's
\* stored orders.
C32_ConcurrentOrdersAggregate ==
    \A a \in HandlerIds, b \in HandlerIds :
        (/\ a # b
         /\ handlers[a].pc = "done" /\ handlers[b].pc = "done"
         /\ ~handlers[a].threw /\ ~handlers[b].threw
         /\ handlers[a].payload[1].id # handlers[b].payload[1].id
         /\ handlers[a].payload[1].customer[1].id
              = handlers[b].payload[1].customer[1].id)
        => \A c \in customers :
              c.id = handlers[a].payload[1].customer[1].id =>
                  LET mine == OrdersOfCustomer(orders, c.tenantId, c.id)
                  IN  /\ c.totalSpent = SumTotal(mine)
                      /\ c.ordersCount = Cardinality(mine)

----------------------------------------------------------------------------
(* SpecBackfill: syncTenantData step by step.  Between two of its steps    *)
(* the events of other stores are processed and metrics are read; events   *)
(* of the tenant itself are processed while no backfill runs.              *)

\* the locals of a backfill that has not started: its tenant, the answers
\* of the store API, its result, and the steps it has made, in order; they
\* are dropped when it returns
NoBackfill == [pc |-> "idle", tenantId |-> "", remote |-> <<>>,
               result |-> NoResult, log |-> <<>>]

InitBackfill ==
    /\ now = 0
    /\ InitTables
    /\ redisUrl = TRUE
    /\ redisUp = TRUE
    /\ cache = {}
    /\ last = NoOp
    /\ delivered = {}
    /\ pc = [r \in Runs |-> "idle"]
    /\ run = [r \in Runs |-> NoRun]
    /\ writes = <<>>
    /\ handlers = [h \in HandlerIds |-> NoHandler]
    /\ pass = NoBackfill

\* customers u1 and u2 of the store have one e-mail address
BackfillCustomers ==
    [id : {"u1", "u2"}, email : {"a@x"}, total_spent : {<<5>>}, orders_count : {1}]

BackfillOrder(id, total, customer) ==
    [id |-> id, total_price |-> total, customer |-> customer, line_items |-> <<>>,
     checkout_token |-> UNDEFINED, created_at |-> 0]

BackfillCustomer(id) == CHOOSE c \in BackfillCustomers : c.id = id

\* what the store API answers to a backfill
BackfillRemotes ==
    [connected : {FALSE}, products : {Failed}, customers : {Failed}, orders : {Failed}]
    \cup
    [connected : {TRUE},
     products  : {Failed} \cup { Fetched(<<x>>) : x \in AllProducts },
     customers : {Failed, Fetched(<<BackfillCustomer("u1")>>),
                  Fetched(<<BackfillCustomer("u1"), BackfillCustomer("u2")>>)},
     orders    : {Failed,
                  Fetched(<<BackfillOrder("o1", <<1, 0>>, <<>>)>>),
                  Fetched(<<BackfillOrder("o1", <<1, 0>>, <<BackfillCustomer("u1")>>),
                            BackfillOrder("o2", <<2, 0>>, <<BackfillCustomer("u1")>>)>>)}]

\* the steps of a backfill so far, then step
Logged(step) == Append(pass.log, step)

\* the catch block of syncTenantData: result.error = error.message
BackfillFails(msg) ==
    /\ pass' = NoBackfill
    /\ last' = [NoOp EXCEPT !.op = "sync", !.tenants = {pass.tenantId},
                            !.result = [pass.result EXCEPT !.error = msg]]
    /\ UNCHANGED <<checkouts, orders, customers, products, refunds, cache>>

\* syncTenantData(tenantId) up to the first fetch: the tenant is looked up
\* and the connection is tested
BackfillStart(tenantId, remote) ==
    /\ pass.pc = "idle"
    /\ LET found == { x \in tenants : x.id = tenantId }
           ends(msg) ==
               /\ pass' = NoBackfill
               /\ last' = [NoOp EXCEPT !.op = "sync", !.tenants = {tenantId},
                                       !.result = [NoResult EXCEPT !.error = msg]]
       IN  IF found = {} THEN ends("Tenant not found")
           ELSE IF \E x \in found : x.accessToken = NULL
                THEN ends("No access token configured for this tenant")
           ELSE IF ~remote.connected THEN ends("Failed to connect to Shopify API")
           ELSE /\ pass' = [NoBackfill EXCEPT !.pc = "products", !.tenantId = tenantId,
                                              !.remote = <<remote>>]
                /\ last' = [NoOp EXCEPT !.op = "backfill", !.tenants = {tenantId}]
    /\ UNCHANGED <<now, tenants, checkouts, orders, customers, products, refunds,
                   redisUrl, redisUp, cache, delivered, pc, run, writes, handlers>>

\* a for loop of syncTenantData over the items fetched for entity type k,
\* or the catch block when the fetch threw
BackfillLoop(k, nextPc, after) ==
    /\ pass.pc = k
    /\ IF ~pass.remote[1][k].ok
       THEN BackfillFails("Shopify API error")
       ELSE /\ checkouts' = after.db.checkouts
            /\ orders'    = after.db.orders
            /\ customers' = after.db.customers
            /\ products'  = after.db.products
            /\ refunds'   = after.db.refunds
            /\ cache' = cache
            /\ pass' = [pass EXCEPT !.pc = nextPc, !.result[k] = after.count,
                                    !.log = Logged(k)]
            /\ last' = [NoOp EXCEPT !.op = "backfill", !.tenants = {pass.tenantId}]
    /\ UNCHANGED <<now, tenants, redisUrl, redisUp, delivered, pc, run, writes, handlers>>

BackfillProducts ==
    BackfillLoop("products", "customers",
                 SyncProducts([db |-> DB, count |-> NoCount], pass.tenantId,
                              pass.remote[1].products.items))

BackfillCustomersLoop ==
    BackfillLoop("customers", "orders",
                 SyncCustomers([db |-> DB, count |-> NoCount], pass.tenantId,
                               pass.remote[1].customers.items))

BackfillOrders ==
    BackfillLoop("orders", "recalc",
                 SyncOrders([db |-> DB, count |-> NoCount], pass.tenantId,
                            pass.remote[1].orders.items))

\* await recalculateCustomerMetrics(tenantId)
BackfillRecalc ==
    /\ pass.pc = "recalc"
    /\ customers' = recalculateCustomerMetrics(DB, pass.tenantId).customers
    /\ pass' = [pass EXCEPT !.pc = "invalidate", !.log = Logged("recalc")]
    /\ last' = [NoOp EXCEPT !.op = "backfill", !.tenants = {pass.tenantId}]
    /\ UNCHANGED <<now, tenants, checkouts, orders, products, refunds, redisUrl, redisUp,
                   cache, delivered, pc, run, writes, handlers>>

\* await invalidateAllMetricsCache(tenantId); result.success = true
BackfillInvalidate ==
    /\ pass.pc = "invalidate"
    /\ cache' = invalidateMetricsCache(cache, pass.tenantId)
    /\ pass' = NoBackfill
    /\ last' = [NoOp EXCEPT !.op = "sync", !.tenants = {pass.tenantId},
                            !.result = [pass.result EXCEPT !.success = TRUE]]
    /\ UNCHANGED <<now, tenants, checkouts, orders, customers, products, refunds,
                   redisUrl, redisUp, delivered, pc, run, writes, handlers>>

BackfillRequest ==
    \E tenantId \in TenantIds, remote \in BackfillRemotes :
        BackfillStart(tenantId, remote)

BackfillStep ==
    \/ BackfillProducts
    \/ BackfillCustomersLoop
    \/ BackfillOrders
    \/ BackfillRecalc
    \/ BackfillInvalidate

\* order and customer events of the tenants, processed while no backfill runs
BackfillIdleEvent ==
    /\ pass.pc = "idle"
    /\ \/ \E tenantId \in TenantIds, id \in {"u1", "u2"} :
            Deliver(tenantId, "orders/create",
                    BackfillOrder("o1", <<2, 0>>, <<BackfillCustomer(id)>>))
       \/ Deliver("t1", "customers/update", BackfillCustomer("u1"))

\* an order event of store b.myshopify.com, for an order and a customer of
\* its own, processed between two steps of a backfill
BackfillOtherStoreEvent ==
    /\ pass.pc # "idle"
    /\ pass.tenantId # "t2"
    /\ Deliver("t2", "orders/create",
               BackfillOrder("o9", <<3, 0>>,
                             <<[id |-> "u9", email |-> "a@x", total_spent |-> <<>>,
                                orders_count |-> 0]>>))

BackfillMetrics == MetricsRead("t1", <<>>)

NextBackfill ==
    \/ BackfillRequest
    \/ BackfillStep
    \/ BackfillIdleEvent
    \/ BackfillOtherStoreEvent
    \/ BackfillMetrics

SpecBackfill == InitBackfill /\ [][NextBackfill]_vars

----------------------------------------------------------------------------
(* SpecStale: metrics reads in flight while order events are processed.    *)
(* A metrics read sends three requests one after the other: the getCache,  *)
(* the queries on the store, and the setCache of what it computed.  An     *)
(* order event is processed in two: its upsert, then the invalidation.     *)

\* the locals of a metrics read that has not started: the tenant and what
\* its queries returned
NoReader == [pc |-> "idle", id |-> "", data |-> NoData]

\* the locals of an event handler that has no request
NoEvent == [pc |-> "idle", tenantId |-> ""]

InitStale ==
    /\ now = 0
    /\ InitTables
    /\ redisUrl = TRUE
    /\ redisUp = TRUE
    /\ cache = {}
    /\ last = NoOp
    /\ delivered = {}
    /\ pc = [r \in Runs |-> "idle"]
    /\ run = [r \in Runs |-> NoRun]
    /\ writes = <<>>
    /\ handlers = [h \in HandlerIds |-> NoEvent]
    /\ pass = NoReader

\* the orders of the two stores, each with order ids of its own
StaleOrders(tenantId) ==
    [id : IF tenantId = "t1" THEN {"o1", "o2"} ELSE {"o3"},
     total_price : {<<1, 0>>, <<2, 0>>}, customer : {<<>>},
     line_items : {<<>>}, checkout_token : {UNDEFINED}]

\* routeWebhook up to the invalidation: processOrderCreated upserts the order
StaleReceive(h, tenantId, payload) ==
    /\ handlers[h].pc = "idle"
    /\ \E r \in processOrderCreated(DB, tenantId, payload, now) :
          orders' = r.db.orders
    /\ handlers' = [handlers EXCEPT ![h] = [pc |-> "invalidate",
                                            tenantId |-> tenantId]]
    /\ last' = [NoOp EXCEPT !.op = "handler", !.tenants = {tenantId}]
    /\ UNCHANGED <<now, tenants, checkouts, customers, products, refunds,
                   redisUrl, redisUp, cache, delivered, pc, run, writes, pass>>

\* await invalidateMetricsCache(tenantId); the webhook is answered
StaleInvalidate(h) ==
    /\ handlers[h].pc = "invalidate"
    /\ cache' = invalidateMetricsCache(cache, handlers[h].tenantId)
    /\ handlers' = [handlers EXCEPT ![h] = NoEvent]
    /\ last' = [NoOp EXCEPT !.op = "webhook", !.tenants = {handlers[h].tenantId},
                            !.status = 200, !.success = TRUE]
    /\ UNCHANGED <<now, tenants, checkouts, orders, customers, products, refunds,
                   redisUrl, redisUp, delivered, pc, run, writes, pass>>

\* GET /tenants/:id/metrics up to the queries: getCache(cacheKey)
ReaderStart(id) ==
    LET cached == getCache(cache, MetricsKey(id), now)
    IN  /\ pass.pc = "idle"
        /\ IF cached # {}
           THEN /\ pass' = NoReader
                /\ last' = [NoOp EXCEPT !.op = "reader", !.status = 200,
                              !.tenants = {id}, !.hit = TRUE,
                              !.data = (CHOOSE e \in cached : TRUE).data]
           ELSE /\ pass' = [NoReader EXCEPT !.pc = "query", !.id = id]
                /\ last' = [NoOp EXCEPT !.op = "reader", !.tenants = {id}]
        /\ UNCHANGED <<now, tenants, checkouts, orders, customers, products, refunds,
                       redisUrl, redisUp, cache, delivered, pc, run, writes, handlers>>

\* the queries of the read are executed
ReaderQuery ==
    /\ pass.pc = "query"
    /\ pass' = [pass EXCEPT !.pc = "set", !.data = ComputeMetrics(pass.id, <<>>)]
    /\ last' = [NoOp EXCEPT !.op = "reader", !.tenants = {pass.id}]
    /\ UNCHANGED <<now, tenants, checkouts, orders, customers, products, refunds,
                   redisUrl, redisUp, cache, delivered, pc, run, writes, handlers>>

\* await setCache(cacheKey, metricsResponse, CACHE_TTL.metrics); res.json
ReaderSet ==
    /\ pass.pc = "set"
    /\ cache' = setCache(cache, MetricsKey(pass.id), pass.data, now)
    /\ pass' = NoReader
    /\ last' = [NoOp EXCEPT !.op = "reader", !.status = 200, !.tenants = {pass.id},
                            !.data = pass.data]
    /\ UNCHANGED <<now, tenants, checkouts, orders, customers, products, refunds,
                   redisUrl, redisUp, delivered, pc, run, writes, handlers>>

StaleRequest ==
    \E h \in HandlerIds, tenantId \in TenantIds :
        \E payload \in StaleOrders(tenantId) : StaleReceive(h, tenantId, payload)

StaleStep == \E h \in HandlerIds : StaleInvalidate(h)

ReaderRequest == \E id \in TenantIds : ReaderStart(id)

ReaderStep == ReaderQuery \/ ReaderSet

\* a metrics read that starts when every webhook received has been answered,
\* and runs to its answer
LaterRead ==
    /\ \A h \in HandlerIds : handlers[h].pc = "idle"
    /\ \E id \in TenantIds : MetricsRead(id, <<>>)

NextStale ==
    \/ StaleRequest
    \/ StaleStep
    \/ ReaderRequest
    \/ ReaderStep
    \/ LaterRead

SpecStale == InitStale /\ [][NextStale]_vars

\* C34: a metrics read of a tenant that starts when the webhooks received
\* have finished (their mutation written, their invalidation done) returns
\* the values of the rows stored, whatever metrics reads were in flight
\* while the webhooks were processed.
C34_NoStaleMetrics ==
    [][(last'.op = "metrics" /\ last'.status = 200) =>
          \A id \in last'.tenants : last'.data = ComputeMetrics(id, <<>>)]_vars

----------------------------------------------------------------------------
(* SpecInvalidate: metrics reads of the two tenants, without and with a    *)
(* date range, which fill the cache, and the invalidations made by order   *)
(* events and by backfills.                                                *)

MetricsRanges == {<<>>, <<0, 0>>, <<0, 60>>}

InvalidateRead ==
    \E id \in TenantIds, range \in MetricsRanges : MetricsRead(id, range)

\* an order event; count is the number of cache entries it removed
InvalidateOrderEvent ==
    /\ \E tenantId \in TenantIds :
         \E payload \in StaleOrders(tenantId) :
           \E r \in routeWebhook(DB, cache, tenantId, "orders/create", payload, now) :
               /\ Apply(r)
               /\ last' = [NoOp EXCEPT !.op = "webhook", !.tenants = {tenantId},
                                       !.topic = "orders/create", !.threw = r.threw,
                                       !.count = Cardinality(cache \ r.cache)]
    /\ UNCHANGED <<now, tenants, redisUrl, redisUp, delivered, pc, run, writes,
                   handlers, pass>>

InvalidateBackfill ==
    \E remote \in AllRemotes : SyncTenant("t1", remote)

NextInvalidate ==
    \/ InvalidateRead
    \/ InvalidateOrderEvent
    \/ InvalidateBackfill

SpecInvalidate == Init /\ [][NextInvalidate]_vars

\* the tenant a cache key names
KeyTenant(key) == key[2]

\* C35: with a working cache, after an invalidation for a tenant (by the
\* router or by a backfill) no entry that was in the cache under the
\* tenant's bare key or under one of its range-qualified keys is left, and
\* every entry of every other tenant is as it was.
C35_InvalidationCoversTenant ==
    [][(/\ getRedis = "up"
        /\ \/ last'.op = "webhook" /\ ~last'.threw
           \/ last'.op = "sync" /\ last'.result.success) =>
          /\ \A e \in cache :
                KeyTenant(e.key) \in last'.tenants =>
                    ~\E f \in cache' : f.key = e.key
          /\ \A e \in cache :
                KeyTenant(e.key) \notin last'.tenants => e \in cache']_vars

\* C35 witness: an order event of t1 has been processed when the cache held
\* entries under the bare key and two range-qualified keys of t1, and has
\* removed the three; the entries of t2, one of them range-qualified, are
\* still there.
C35_Witness ==
    /\ last.op = "webhook" /\ last.tenants = {"t1"} /\ last.count = 3
    /\ \A e \in cache : KeyTenant(e.key) = "t2"
    /\ \E e \in cache : e.key = MetricsKey("t2")
    /\ \E e \in cache : Len(e.key) > 2 /\ e.data.ordersCount > 0

----------------------------------------------------------------------------
(* SpecAbandon: the scheduled sweep keeps running.  Checkout and order     *)
(* events arrive until the clock passes the abandonment threshold; from    *)
(* then on only cart events arrive.  The cron task fires again and again   *)
(* and time passes: both steps are taken whenever they stay possible.      *)

\* no checkout or order event arrives any more
Quiet == now > ABANDONMENT_THRESHOLD_MINUTES

AbandonCheckoutEvent == ~Quiet /\ CheckoutEvent

AbandonOrderEvent == ~Quiet /\ OrderEvent

\* a cart event; delivered collects the checkouts whose updatedAt a cart
\* event has refreshed after they had passed the threshold
AbandonCartEvent ==
    /\ \E tenantId \in TenantIds, payload \in CartPayloads :
         \E r \in routeWebhook(DB, cache, tenantId, "carts/update", payload, now) :
             /\ Apply(r)
             /\ last' = [NoOp EXCEPT !.op = "webhook", !.tenants = {tenantId},
                                     !.topic = "carts/update", !.threw = r.threw]
             /\ delivered' = delivered \cup
                   { c.id : c \in { x \in checkouts \ r.db.checkouts :
                                      x.createdAt < ThresholdDate(now) } }
    /\ UNCHANGED <<now, tenants, redisUrl, redisUp, pc, run, writes, handlers, pass>>

NextAbandon ==
    \/ AbandonCheckoutEvent
    \/ AbandonOrderEvent
    \/ AbandonCartEvent
    \/ ScheduledSweep
    \/ ThresholdPasses

SpecAbandon ==
    /\ Init
    /\ [][NextAbandon]_vars
    /\ WF_vars(ScheduledSweep)
    /\ WF_vars(ThresholdPasses)

\* C36: while the scheduled sweep keeps running, a checkout that is PENDING
\* and receives no further checkout or order event becomes ABANDONED,
\* whatever cart events refresh its updatedAt in the meantime.
C36_PendingIsAbandoned ==
    \A tenantId \in TenantIds, id \in CheckoutIds :
        (Quiet /\ \E c \in CheckoutByKey(checkouts, tenantId, id) : c.status = "PENDING")
        ~> (\E c \in CheckoutByKey(checkouts, tenantId, id) : c.status = "ABANDONED")

\* C36 witness: a checkout is ABANDONED whose updatedAt a cart event had
\* refreshed after the checkout had passed the threshold and before the
\* sweep.
C36_Witness ==
    /\ Quiet
    /\ \E c \in checkouts :
          c.status = "ABANDONED" /\ c.id \in delivered /\ c.abandonedAt = now

----------------------------------------------------------------------------
(* SpecCheckoutRace: checkout events processed by two request handlers     *)
(* side by side, among sweeps.  The upsert of processCheckout reaches the  *)
(* database either as one statement or as a select followed by an insert   *)
(* or an update; the model takes the two-statement form, of which the      *)
(* one-statement form is the interleaving with nothing in between.  The    *)
(* unique index on (tenantId, shopifyCheckoutId) refuses a second insert.  *)

\* the locals of a checkout handler that has no request: the tenant and the
\* payload of its request, the ids of the rows its select returned
NoUpsert == [pc |-> "idle", tenantId |-> "", payload |-> <<>>, found |-> {},
             threw |-> FALSE]

InitCheckoutRace ==
    /\ now = 0
    /\ InitTables
    /\ redisUrl = TRUE
    /\ redisUp = TRUE
    /\ cache = {}
    /\ last = NoOp
    /\ delivered = {}
    /\ pc = [r \in Runs |-> "idle"]
    /\ run = [r \in Runs |-> NoRun]
    /\ writes = <<>>
    /\ handlers = [h \in HandlerIds |-> NoUpsert]
    /\ pass = NoPass

RacePayloads ==
    [id : CheckoutIds, cart_token : {"k1", "k2"}, total_price : {<<1, 0>>},
     line_items : {<<[quantity |-> 2]>>}, completed_at : {NoDate}]

\* an insert into a table without the unique index
CheckoutInsert_noIndex(cs, row) == [rows |-> cs \cup {row}, threw |-> FALSE]

\* INSERT INTO "Checkout": refused by Checkout_tenantId_shopifyCheckoutId_key
\* when a row with the key is there
CheckoutInsert(cs, row) ==
    IF CheckoutByKey(cs, row.tenantId, row.shopifyCheckoutId) # {}
    THEN [rows |-> cs, threw |-> TRUE]
    ELSE [rows |-> cs \cup {row}, threw |-> FALSE]

\* processCheckout up to the await: the upsert is sent
UpsertReceive(h, tenantId, payload) ==
    /\ handlers[h].pc = "idle"
    /\ handlers' = [handlers EXCEPT ![h] =
                       [NoUpsert EXCEPT !.pc = "select", !.tenantId = tenantId,
                                        !.payload = <<payload>>]]
    /\ last' = [NoOp EXCEPT !.op = "handler", !.tenants = {tenantId}]
    /\ UNCHANGED <<now, tenants, checkouts, orders, customers, products, refunds,
                   redisUrl, redisUp, cache, delivered, pc, run, writes, pass>>

\* the select of the upsert: where tenantId_shopifyCheckoutId
UpsertSelect(h) ==
    /\ handlers[h].pc = "select"
    /\ handlers' = [handlers EXCEPT
                      ![h].pc = "write",
                      ![h].found = { c.id : c \in CheckoutByKey(checkouts,
                                                handlers[h].tenantId,
                                                handlers[h].payload[1].id) }]
    /\ last' = [NoOp EXCEPT !.op = "lookup"]
    /\ UNCHANGED <<now, tenants, checkouts, orders, customers, products, refunds,
                   redisUrl, redisUp, cache, delivered, pc, run, writes, pass>>

\* the insert or the update of the upsert; an insert that is refused makes
\* processCheckout throw, and routeWebhook is left before the invalidation
UpsertWrite(h) ==
    LET tenantId == handlers[h].tenantId
        payload  == handlers[h].payload[1]
        inserted == CheckoutInsert(checkouts,
                                   CheckoutCreated(checkouts, tenantId, payload, now))
    IN  /\ handlers[h].pc = "write"
        /\ IF handlers[h].found = {}
           THEN /\ checkouts' = inserted.rows
                /\ handlers' = [handlers EXCEPT
                                  ![h].pc = IF inserted.threw THEN "idle"
                                            ELSE "invalidate",
                                  ![h].threw = inserted.threw]
                /\ last' = [NoOp EXCEPT !.op = "upsert", !.tenants = {tenantId},
                                        !.topic = "checkouts/update",
                                        !.threw = inserted.threw]
           ELSE /\ checkouts' = { IF c \in CheckoutByKey(checkouts, tenantId, payload.id)
                                  THEN CheckoutUpdated(c, payload, now)
                                  ELSE c : c \in checkouts }
                /\ handlers' = [handlers EXCEPT ![h].pc = "invalidate"]
                /\ last' = [NoOp EXCEPT !.op = "upsert", !.tenants = {tenantId},
                                        !.topic = "checkouts/update"]
        /\ UNCHANGED <<now, tenants, orders, customers, products, refunds,
                       redisUrl, redisUp, cache, delivered, pc, run, writes, pass>>

\* routeWebhook after processCheckout: invalidateMetricsCache(tenantId)
UpsertInvalidate(h) ==
    /\ handlers[h].pc = "invalidate"
    /\ cache' = invalidateMetricsCache(cache, handlers[h].tenantId)
    /\ handlers' = [handlers EXCEPT ![h] = NoUpsert]
    /\ last' = [NoOp EXCEPT !.op = "handler", !.status = 200, !.success = TRUE]
    /\ UNCHANGED <<now, tenants, checkouts, orders, customers, products, refunds,
                   redisUrl, redisUp, delivered, pc, run, writes, pass>>

UpsertRequest ==
    \E h \in HandlerIds, tenantId \in TenantIds, payload \in RacePayloads :
        UpsertReceive(h, tenantId, payload)

UpsertStep ==
    \E h \in HandlerIds : UpsertSelect(h) \/ UpsertWrite(h) \/ UpsertInvalidate(h)

NextCheckoutRace ==
    \/ UpsertRequest
    \/ UpsertStep
    \/ ScheduledSweep
    \/ ThresholdPasses

SpecCheckoutRace == InitCheckoutRace /\ [][NextCheckoutRace]_vars

\* C37: in every state at most one Checkout row has a given (tenantId,
\* shopifyCheckoutId), also when two checkout events for one checkout are
\* processed side by side; and a checkout event for a checkout that has a
\* row rewrites that row and leaves its id, tenantId, shopifyCheckoutId,
\* shopifyCartToken, createdAt and abandonedAt as they were.
C37_OneRowPerCheckout ==
    /\ [](\A c \in checkouts, d \in checkouts :
             (c.tenantId = d.tenantId /\ c.shopifyCheckoutId = d.shopifyCheckoutId)
             => c = d)
    /\ [][last'.op = "upsert" =>
            \A c \in checkouts :
                \E d \in checkouts' :
                    /\ d.id = c.id
                    /\ d.tenantId = c.tenantId
                    /\ d.shopifyCheckoutId = c.shopifyCheckoutId
                    /\ d.shopifyCartToken = c.shopifyCartToken
                    /\ d.createdAt = c.createdAt
                    /\ d.abandonedAt = c.abandonedAt]_vars

\* C37 witness: two handlers took a checkout event for checkout c1 of t1
\* each, both selects found no row, one insert was made and the other was
\* refused; t1 has one row for c1.
C37_Witness ==
    /\ handlers["A"].pc = "invalidate" /\ handlers["A"].found = {}
    /\ handlers["B"].threw /\ handlers["B"].found = {}
    /\ handlers["A"].tenantId = "t1" /\ handlers["B"].tenantId = "t1"
    /\ Cardinality(CheckoutByKey(checkouts, "t1", "c1")) = 1

----------------------------------------------------------------------------
(* SpecStats: the result of detectAllAbandonedCheckouts, for tenants with  *)
(* different names and for tenants registered under one name (the Tenant   *)
(* table has a unique index on shopDomain only).                           *)

\* the two tenants registered under the name "A"
SameNameTenants == { [tenant EXCEPT !.name = "A"] : tenant \in InitTenants }

InitStats ==
    /\ now = 0
    /\ tenants \in {InitTenants, SameNameTenants}
    /\ checkouts = {}
    /\ orders = {}
    /\ customers = {}
    /\ products = {}
    /\ refunds = {}
    /\ redisUrl = TRUE
    /\ redisUp = TRUE
    /\ cache = {}
    /\ last = NoOp
    /\ InitIdle

\* tenantStats[name] = abandoned
Put(stats, name, abandoned) ==
    [n \in DOMAIN stats \cup {name} |-> IF n = name THEN abandoned ELSE stats[n]]

RECURSIVE TenantStats(_, _, _, _)
\* the loop of detectAllAbandonedCheckouts over the tenants todo, which
\* findMany returns in an order the query does not fix: the tenantStats it
\* can end with
TenantStats(cs, todo, t, stats) ==
    IF todo = {} THEN {stats}
    ELSE UNION { LET abandoned == UpdateManyCount(cs, tenant.id, ThresholdDate(t))
                 IN  TenantStats(detectAbandonedCheckouts(cs, tenant.id, t),
                                 todo \ {tenant}, t,
                                 IF abandoned > 0
                                 THEN Put(stats, tenant.name, abandoned)
                                 ELSE stats)
                 : tenant \in todo }

RECURSIVE SumValues(_)
\* the sum of the values of tenantStats
SumValues(stats) ==
    IF DOMAIN stats = {} THEN 0
    ELSE LET n == CHOOSE x \in DOMAIN stats : TRUE
         IN  stats[n] + SumValues([m \in DOMAIN stats \ {n} |-> stats[m]])

\* detectAllAbandonedCheckouts(): { totalAbandoned, tenantStats }
DetectAll ==
    /\ \E stats \in TenantStats(checkouts, tenants, now, <<>>) :
          last' = [NoOp EXCEPT !.op = "sweep",
                               !.tenants = { tenant.id : tenant \in tenants },
                               !.count = totalAbandoned(checkouts, tenants, now),
                               !.tenantStats = stats]
    /\ checkouts' = detectAll(checkouts, tenants, now)
    /\ UNCHANGED <<now, tenants, orders, customers, products, refunds, redisUrl, redisUp,
                   cache, delivered, pc, run, writes, handlers, pass>>

StatsCheckoutEvent ==
    \E tenantId \in TenantIds :
        \E payload \in SweepPayloads(tenantId) :
            Deliver(tenantId, "checkouts/create", payload)

NextStats ==
    \/ StatsCheckoutEvent
    \/ DetectAll
    \/ ThresholdPasses

SpecStats == InitStats /\ [][NextStats]_vars

\* C39: the totalAbandoned that detectAllAbandonedCheckouts returns is the
\* number of checkouts the run moved from PENDING to ABANDONED, over all
\* tenants, and is the sum of the values of the tenantStats it returns,
\* also when tenants share a name.
C39_StatsAreConsistent ==
    [][last'.op = "sweep" =>
          /\ last'.count =
                Cardinality({ c \in checkouts :
                                /\ c.status = "PENDING"
                                /\ \E d \in checkouts' :
                                      d.id = c.id /\ d.status = "ABANDONED" })
          /\ last'.count = SumValues(last'.tenantStats)]_vars

----------------------------------------------------------------------------
(* SpecRateLimit: the rateLimiter middleware, two requests handled side by *)
(* side, each split at its Redis commands, with a Redis server that can    *)
(* fail and recover between any two commands.  The window of 60 * 1000 ms  *)
(* is one minute of the model's clock.                                     *)

RATE_LIMIT == [windowMs |-> 1, maxRequests |-> 100]

\* the windows the clock runs through
MaxWindows == 2
\* the requests received in one behaviour
MaxCalls == 5
\* the requests of s1 already counted in the window that is open at the start
Counted == {0, RATE_LIMIT.maxRequests - 2}

\* the requests: with and without the x-shopify-shop-domain header
LimiterRequests == { [shopDomain |-> "s1", ip |-> "ip1"],
              [shopDomain |-> "", ip |-> "ip1"] }

\* shopDomain || req.ip || 'unknown'
Identifier(req) ==
    IF req.shopDomain # "" THEN req.shopDomain
    ELSE IF req.ip # "" THEN req.ip ELSE "unknown"

Identifiers == { Identifier(req) : req \in LimiterRequests }

\* CACHE_KEYS.rateLimit(identifier)
RateLimitKey(identifier) == <<"ratelimit", identifier>>

\* the value stored under the key, 0 when there is no key
Counter(entries, key) ==
    IF \E e \in entries : e.key = key
    THEN (CHOOSE e \in entries : e.key = key).data
    ELSE 0

\* redis.incr(key): a missing key is created with value 1 and no expiry, an
\* existing key keeps its expiry
Incr(entries, key) ==
    IF \E e \in entries : e.key = key
    THEN { IF e.key = key THEN [e EXCEPT !.data = e.data + 1] ELSE e : e \in entries }
    ELSE entries \cup { [key |-> key, data |-> 1, expiresAt |-> NoDate] }

\* a first request that sets no expiry
Pexpire_skip(entries, key, t) == entries

\* redis.pexpire(key, RATE_LIMIT.windowMs)
Pexpire(entries, key, t) ==
    { IF e.key = key THEN [e EXCEPT !.expiresAt = t + RATE_LIMIT.windowMs] ELSE e
      : e \in entries }

\* redis.pttl(key): -2 without the key, -1 for a key without expiry
Pttl(entries, key, t) ==
    IF ~\E e \in entries : e.key = key THEN -2
    ELSE LET e == CHOOSE x \in entries : x.key = key
         IN  IF e.expiresAt = NoDate THEN -1 ELSE e.expiresAt - t

\* the locals of a rateLimiter call without a request: its identifier, the
\* count it was given, and which of the identifier's counters gave it
NoLimiter == [pc |-> "idle", identifier |-> "", count |-> 0, window |-> 0]

\* the middleware between requests: no counter, or the counter of s1 after
\* the first requests of a window that began at minute 0.
\* writes: per identifier, the number of counters created so far;
\* delivered: the number of requests received
InitRateLimit ==
    /\ now = 0
    /\ InitTables
    /\ redisUrl \in BOOLEAN
    /\ redisUp = TRUE
    /\ \E n \in Counted :
          /\ n > 0 => redisUrl
          /\ cache = IF n = 0 THEN {}
                     ELSE { [key |-> RateLimitKey("s1"), data |-> n,
                             expiresAt |-> RATE_LIMIT.windowMs] }
          /\ writes = [identifier \in Identifiers |->
                          IF n > 0 /\ identifier = "s1" THEN 1 ELSE 0]
    /\ last = NoOp
    /\ delivered = 0
    /\ pc = [r \in Runs |-> "idle"]
    /\ run = [r \in Runs |-> NoRun]
    /\ handlers = [h \in HandlerIds |-> NoLimiter]
    /\ pass = NoPass

\* the answer of the middleware: next() (status 0) or 429
LimiterAnswer(identifier, status, threw) ==
    [NoOp EXCEPT !.op = "rateLimiter", !.kind = identifier,
                 !.status = status, !.threw = threw, !.verify = getRedis]

LimiterRest == <<now, tenants, checkouts, orders, customers, products, refunds,
                 redisUrl, redisUp, pc, run, pass>>

\* getRedis(), the identifier and `count = await redis.incr(key)`
LimiterIncr(h, req) ==
    LET identifier == Identifier(req)
        key        == RateLimitKey(identifier)
        count      == Counter(cache, key) + 1
    IN  /\ handlers[h].pc = "idle"
        /\ delivered < MaxCalls
        /\ delivered' = delivered + 1
        /\ IF getRedis # "up"
           THEN /\ last' = LimiterAnswer(identifier, 0, getRedis = "down")
                /\ UNCHANGED <<cache, handlers, writes>>
           ELSE /\ cache' = Incr(cache, key)
                /\ writes' = IF count = 1
                             THEN [writes EXCEPT ![identifier] = @ + 1] ELSE writes
                /\ handlers' = [handlers EXCEPT ![h] =
                                  [pc |-> IF count = 1 THEN "pexpire" ELSE "pttl",
                                   identifier |-> identifier, count |-> count,
                                   window |-> writes'[identifier]]]
                /\ last' = [NoOp EXCEPT !.op = "incr", !.kind = identifier]
        /\ UNCHANGED LimiterRest

\* if (count === 1) await redis.pexpire(key, RATE_LIMIT.windowMs)
LimiterPexpire(h) ==
    LET l == handlers[h]
    IN  /\ l.pc = "pexpire"
        /\ IF getRedis # "up"
           THEN /\ handlers' = [handlers EXCEPT ![h] = NoLimiter]
                /\ last' = LimiterAnswer(l.identifier, 0, TRUE)
                /\ UNCHANGED cache
           ELSE /\ cache' = Pexpire(cache, RateLimitKey(l.identifier), now)
                /\ handlers' = [handlers EXCEPT ![h].pc = "pttl"]
                /\ last' = [NoOp EXCEPT !.op = "pexpire", !.kind = l.identifier]
        /\ UNCHANGED <<writes, delivered>>
        /\ UNCHANGED LimiterRest

\* `ttl = await redis.pttl(key)`, the headers, the comparison with
\* maxRequests, and the catch that passes the request on
LimiterCheck(h) ==
    LET l   == handlers[h]
        ttl == Pttl(cache, RateLimitKey(l.identifier), now)
    IN  /\ l.pc = "pttl"
        /\ handlers' = [handlers EXCEPT ![h] = NoLimiter]
        /\ IF getRedis # "up"
           THEN last' = LimiterAnswer(l.identifier, 0, TRUE)
           ELSE IF l.count > RATE_LIMIT.maxRequests
           THEN last' = [LimiterAnswer(l.identifier, 429, FALSE)
                            EXCEPT !.range = <<ttl>>]
           ELSE last' = LimiterAnswer(l.identifier, 0, FALSE)
        /\ UNCHANGED <<cache, writes, delivered>>
        /\ UNCHANGED LimiterRest

\* a minute passes and Redis removes the keys whose expiry is reached
WindowPasses ==
    /\ now < MaxWindows
    /\ now' = now + 1
    /\ cache' = { e \in cache : e.expiresAt = NoDate \/ e.expiresAt > now + 1 }
    /\ last' = [NoOp EXCEPT !.op = "tick"]
    /\ UNCHANGED <<tenants, checkouts, orders, customers, products, refunds, redisUrl,
                   redisUp, delivered, pc, run, writes, handlers, pass>>

\* the Redis server stops answering, or answers again
RedisFails ==
    /\ redisUrl /\ redisUp
    /\ redisUp' = FALSE
    /\ last' = [NoOp EXCEPT !.op = "redis"]
    /\ UNCHANGED <<now, tenants, checkouts, orders, customers, products, refunds, redisUrl,
                   cache, delivered, pc, run, writes, handlers, pass>>

RedisRecovers ==
    /\ redisUrl /\ ~redisUp
    /\ redisUp' = TRUE
    /\ last' = [NoOp EXCEPT !.op = "redis"]
    /\ UNCHANGED <<now, tenants, checkouts, orders, customers, products, refunds, redisUrl,
                   cache, delivered, pc, run, writes, handlers, pass>>

LimiterRequest == \E h \in HandlerIds : \E req \in LimiterRequests : LimiterIncr(h, req)

LimiterStep == \E h \in HandlerIds : LimiterPexpire(h) \/ LimiterCheck(h)

NextRateLimit ==
    \/ LimiterRequest
    \/ LimiterStep
    \/ WindowPasses
    \/ RedisFails
    \/ RedisRecovers

SpecRateLimit == InitRateLimit /\ [][NextRateLimit]_vars

\* C40: the requests that one counter of an identifier counts are given
\* different counts, also when they are handled side by side, the ones with
\* a count up to 100 are passed on and every one counted beyond 100 is
\* answered with 429 (so at most 100 of a window are passed on); between
\* requests every stored counter carries an expiry; a request that finds
\* no client or whose Redis command fails is passed on.
C40_RateLimiter ==
    /\ [](\A g, h \in HandlerIds :
             (/\ g # h
              /\ handlers[g].pc # "idle" /\ handlers[h].pc # "idle"
              /\ handlers[g].identifier = handlers[h].identifier
              /\ handlers[g].window = handlers[h].window) =>
                 handlers[g].count # handlers[h].count)
    /\ []((\A h \in HandlerIds : handlers[h].pc = "idle") =>
             \A e \in cache : e.expiresAt # NoDate)
    /\ [][last'.op = "rateLimiter" =>
             /\ (last'.verify = "up" /\ ~last'.threw) =>
                   \A h \in HandlerIds :
                       handlers'[h] # handlers[h] =>
                          (last'.status = 429 <=>
                              handlers[h].count > RATE_LIMIT.maxRequests)
             /\ (last'.verify # "up" \/ last'.threw) => last'.status = 0]_vars

====
